---- MODULE Spec2Model ----
(***************************************************************************)
(* Model of the Local AI Assistant backend: the in-memory ChatManager      *)
(* (sessions, conversations, expiry sweep), the send_message turn and the  *)
(* streaming turn of the chat API, the tool-call parser, the ToolManager   *)
(* executor, and the application's startup, shutdown and health probe.     *)
(*                                                                         *)
(* Scheduling: the service is one asyncio event loop.  A coroutine is      *)
(* suspended only where it awaits real I/O (the HTTP call to the inference *)
(* backend, asyncio.sleep in the sweep, a tool body); the awaits inside    *)
(* ChatManager (get_session, get_conversation, end_session) never yield to *)
(* the loop, so each ChatManager method runs to completion as one step and *)
(* each action below is the code between two suspension points.            *)
(*                                                                         *)
(* Text is a sequence of one-character strings, so that the parser, which  *)
(* works on characters, is modelled as it computes.                        *)
(***************************************************************************)
EXTENDS Integers, Sequences, FiniteSets, TLC

\* ------------------------------------------------------------------ bounds
MaxTurns == 2           \* send_message requests in one run
MaxConvs == 2           \* conversations created by direct create_session calls
MaxMsgs == 2            \* messages appended by direct add_message calls
MaxCtx == 2             \* largest max_messages of a direct context call
SessionTimeout == 1     \* settings.session_timeout_minutes, in clock ticks
MaxTime == SessionTimeout + 1
MaxPieces == 3           \* pieces a text handed to the parser is made of

\* --------------------------------------------------------- program constants
ContextWindow == 10     \* max_messages passed by send_message

None == "None"
ClientIds == {"s1"}      \* session ids a client may supply
GenIds == <<"g1">>             \* ids uuid4 generates, in order of generation
Turns == 1..MaxTurns

\* ---------------------------------------------------------------- characters
Lower == {"a","b","c","d","e","f","g","h","i","j","k","l","m",
          "n","o","p","q","r","s","t","u","v","w","x","y","z"}
Upper == {"A","B","C","D","E","F","G","H","I","J","K","L","M",
          "N","O","P","Q","R","S","T","U","V","W","X","Y","Z"}
Digit == {"0","1","2","3","4","5","6","7","8","9"}
\* The patterns are str patterns, so \w and \s are the Unicode classes.  The
\* texts of this model are over U+0000..U+00FF; the two classes are written
\* out for that range.
Latin1Word == {"ª","²","³","µ","¹","º","¼","½","¾","À","Á","Â","Ã",
               "Ä","Å","Æ","Ç","È","É","Ê","Ë","Ì","Í","Î","Ï","Ð",
               "Ñ","Ò","Ó","Ô","Õ","Ö","Ø","Ù","Ú","Û","Ü","Ý","Þ",
               "ß","à","á","â","ã","ä","å","æ","ç","è","é","ê","ë",
               "ì","í","î","ï","ð","ñ","ò","ó","ô","õ","ö","ø","ù",
               "ú","û","ü","ý","þ","ÿ"}
WordChars == Lower \cup Upper \cup Digit \cup {"_"} \cup Latin1Word   \* regex \w
\* tab, line feed, vertical tab, form feed, carriage return, U+001C..U+001F,
\* space, U+0085, U+00A0
SpaceChars == {"\t", "\n", "", "\f", "\r", "", "", "", "", " ",
               "", " "}                               \* regex \s
QuoteChars == {"\"", "'"}                               \* strip('"\'')

VARIABLES
    sessions,        \* ChatManager.sessions: session id -> SessionInfo
    conversations,   \* ChatManager.conversations: conversation id -> messages
    cleanupTask,     \* the task ChatManager._cleanup_task refers to: "none",
                     \* "running", "cancelled"
    orphanTasks,     \* whether a sweep task of an earlier start() call, which
                     \* _cleanup_task no longer refers to, is still running
    now,             \* the clock read by datetime.now()
    genCount,        \* number of session ids generated by uuid4 so far
    turns,           \* the send_message requests: position and locals
    ret,             \* the last ChatManager call and what it returned
    appended,        \* history: per conversation, the add_message calls that returned
    tools,           \* ToolManager.tools: tool name -> tool object
    enable_system_commands,  \* settings.enable_system_commands
    toolRet,         \* the last ToolManager.execute_tool call and its outcome
    full_response,   \* the text handed to parse_tool_calls
    parsed,          \* whether parse_tool_calls has returned, and its result
    stream,          \* the send_message_stream request: position, locals, events sent
    app              \* the application: lifespan phase, app.state, backend, error log

vars == <<sessions, conversations, cleanupTask, orphanTasks, now, genCount, turns, ret,
          appended, tools, enable_system_commands, toolRet,
          full_response, parsed, stream, app>>
chatVars == <<sessions, conversations, cleanupTask, orphanTasks, now, genCount, turns, ret,
              appended>>
toolVars == <<tools, enable_system_commands, toolRet>>
parseVars == <<full_response, parsed>>
hostVars == <<stream, app>>

\* ------------------------------------------------------------ tool-call parser
\* Names the parser compares against (api/chat.py lines 381-389).
web_search == <<"w","e","b","_","s","e","a","r","c","h">>
read_file == <<"r","e","a","d","_","f","i","l","e">>
write_file == <<"w","r","i","t","e","_","f","i","l","e">>
delete_file == <<"d","e","l","e","t","e","_","f","i","l","e">>
system_command == <<"s","y","s","t","e","m","_","c","o","m","m","a","n","d">>
file_upload == <<"f","i","l","e","_","u","p","l","o","a","d">>

\* The literal prefix of the pattern r'\[TOOL:\s*(\w+)\((.*?)\)\]'.
ToolOpen == <<"[","T","O","O","L",":">>

EmptyDict == <<>>

HasPrefixAt(text, i, p) ==
    /\ i + Len(p) - 1 <= Len(text)
    /\ SubSeq(text, i, i + Len(p) - 1) = p

\* Greedy run of a character class: the first index >= i not in cls.
RECURSIVE SkipWhile(_, _, _)
SkipWhile(text, i, cls) ==
    IF i <= Len(text) /\ text[i] \in cls
    THEN SkipWhile(text, i + 1, cls)
    ELSE i

\* The lazy (.*?) followed by \)\] : the first m >= start with ")]" at m,
\* no newline before it ('.' does not match "\n"); 0 when there is none.
RECURSIVE FindClose(_, _)
FindClose(text, m) ==
    IF m + 1 > Len(text) THEN 0
    ELSE IF text[m] = ")" /\ text[m + 1] = "]" THEN m
    ELSE IF text[m] = "\n" THEN 0
    ELSE FindClose(text, m + 1)

\* One attempt of the pattern at position i.
MatchAt(text, i) ==
    LET j == SkipWhile(text, i + Len(ToolOpen), SpaceChars)
        k == SkipWhile(text, j, WordChars)
        m == FindClose(text, k + 1)
    IN  IF /\ HasPrefixAt(text, i, ToolOpen)
           /\ k > j
           /\ k <= Len(text)
           /\ text[k] = "("
           /\ m > 0
        THEN [ok |-> TRUE, tool_name |-> SubSeq(text, j, k - 1),
              params_str |-> SubSeq(text, k + 1, m - 1), end |-> m + 1]
        ELSE [ok |-> FALSE, tool_name |-> <<>>, params_str |-> <<>>, end |-> i]

\* re.findall: non-overlapping matches, scanning left to right from i.
RECURSIVE FindAll(_, _)
FindAll(text, i) ==
    IF i > Len(text) THEN <<>>
    ELSE LET r == MatchAt(text, i)
         IN  IF r.ok
             THEN <<[tool_name |-> r.tool_name, params_str |-> r.params_str]>>
                      \o FindAll(text, r.end + 1)
             ELSE FindAll(text, i + 1)

\* str.strip(chars): drops every leading and trailing character in cs.
RECURSIVE LStrip(_, _)
LStrip(s, cs) ==
    IF s # <<>> /\ Head(s) \in cs THEN LStrip(Tail(s), cs) ELSE s

RECURSIVE RStrip(_, _)
RStrip(s, cs) ==
    IF s # <<>> /\ s[Len(s)] \in cs
    THEN RStrip(SubSeq(s, 1, Len(s) - 1), cs)
    ELSE s

Strip(s, cs) == RStrip(LStrip(s, cs), cs)

\* Mutant: the argument text is mapped as written, quotes included.
ToolCallOf_unstripped(tool_name, params_str) ==
    LET params ==
            IF params_str # <<>> /\ tool_name \in {web_search, read_file, write_file}
            THEN IF tool_name = web_search
                 THEN [query |-> params_str]
                 ELSE [path |-> params_str]
            ELSE EmptyDict
    IN  [tool_name |-> tool_name,
         parameters |-> params,
         requires_confirmation |->
             tool_name \in {write_file, delete_file, system_command}]

\* Mutant: system_command is missing from the list of dangerous names.
ToolCallOf_two_names(tool_name, params_str) ==
    LET stripped == Strip(params_str, QuoteChars)
        params ==
            IF params_str # <<>> /\ tool_name \in {web_search, read_file, write_file}
            THEN IF tool_name = web_search
                 THEN [query |-> stripped]
                 ELSE [path |-> stripped]
            ELSE EmptyDict
    IN  [tool_name |-> tool_name,
         parameters |-> params,
         requires_confirmation |-> tool_name \in {write_file, delete_file}]

\* The body of the loop over matches: one ToolCall per match.
ToolCallOf(tool_name, params_str) ==
    LET stripped == Strip(params_str, QuoteChars)
        params ==
            IF params_str # <<>> /\ tool_name \in {web_search, read_file, write_file}
            THEN IF tool_name = web_search
                 THEN [query |-> stripped]
                 ELSE [path |-> stripped]
            ELSE EmptyDict
    IN  [tool_name |-> tool_name,
         parameters |-> params,
         requires_confirmation |->
             tool_name \in {write_file, delete_file, system_command}]

\* Mutant: only the first match is turned into a ToolCall.
parse_tool_calls_first_only(response) ==
    LET matches == FindAll(response, 1)
    IN  [i \in 1..(IF matches = <<>> THEN 0 ELSE 1) |->
            ToolCallOf(matches[i].tool_name, matches[i].params_str)]

\* Mutant: a match whose name the parser cannot map is dropped.
parse_tool_calls_known_only(response) ==
    LET matches == FindAll(response, 1)
        known == SelectSeq(matches,
                     LAMBDA m : m.tool_name \in {web_search, read_file, write_file})
    IN  [i \in 1..Len(known) |->
            ToolCallOf(known[i].tool_name, known[i].params_str)]

parse_tool_calls(response) ==
    LET matches == FindAll(response, 1)
    IN  [i \in 1..Len(matches) |->
            ToolCallOf(matches[i].tool_name, matches[i].params_str)]

\* ------------------------------------------------- messages and conversations
\* A Message is role, content and metadata (the timestamp is never read by
\* the operations modelled and is left out).
Message(role, content, metadata) ==
    [role |-> role, content |-> content, metadata |-> metadata]

\* The content of the system message create_session writes, as one symbol.
PrimerText == <<"<primer>">>
Primer == Message("system", PrimerText, EmptyDict)

\* Conversation.add_message: appends at the end of the message list.
ConversationAddMessage(messages, message) == Append(messages, message)

\* Conversation.get_context: the most recent max_messages entries, oldest
\* first, each reduced to role and content.
ConversationGetContext(messages, max_messages) ==
    LET n == Len(messages)
        first == IF max_messages >= n THEN 1 ELSE n - max_messages + 1
    IN  [i \in 1..(n - first + 1) |->
            [role |-> messages[first + i - 1].role,
             content |-> messages[first + i - 1].content]]

\* ------------------------------------------------------------- ChatManager
\* The methods are written over st = [s |-> sessions, c |-> conversations]
\* so that a handler can run several of them in one step.  Conversation ids
\* come from uuid4 and are fresh: the id of a new conversation is its index.
SessionInfo(conversation_id, t) ==
    [conversation_id |-> conversation_id, last_activity |-> t, message_count |-> 0]

\* Mutant: the conversation is stored without the system message.
create_session_no_primer(st, session_id, t) ==
    LET conversation_id == Len(st.c) + 1
    IN  [s |-> [x \in DOMAIN st.s \cup {session_id} |->
                    IF x = session_id
                    THEN SessionInfo(conversation_id, t)
                    ELSE st.s[x]],
         c |-> Append(st.c, <<>>)]

\* Mutant: the conversation id is not fresh, every session gets the first.
create_session_shared(st, session_id, t) ==
    LET conversation_id == 1
        conversation == ConversationAddMessage(<<>>, Primer)
    IN  [s |-> [x \in DOMAIN st.s \cup {session_id} |->
                    IF x = session_id
                    THEN SessionInfo(conversation_id, t)
                    ELSE st.s[x]],
         c |-> Append(st.c, conversation)]

\* Mutant: the new session's message_count counts the primer.
create_session_counts_primer(st, session_id, t) ==
    LET conversation_id == Len(st.c) + 1
        conversation == ConversationAddMessage(<<>>, Primer)
    IN  [s |-> [x \in DOMAIN st.s \cup {session_id} |->
                    IF x = session_id
                    THEN [SessionInfo(conversation_id, t)
                              EXCEPT !.message_count = 1]
                    ELSE st.s[x]],
         c |-> Append(st.c, conversation)]

\* Mutant: a live id keeps the conversation it already has.
create_session_resumes(st, session_id, t) ==
    LET conversation_id == IF session_id \in DOMAIN st.s
                           THEN st.s[session_id].conversation_id
                           ELSE Len(st.c) + 1
        conversation == ConversationAddMessage(<<>>, Primer)
    IN  [s |-> [x \in DOMAIN st.s \cup {session_id} |->
                    IF x = session_id
                    THEN SessionInfo(conversation_id, t)
                    ELSE st.s[x]],
         c |-> Append(st.c, conversation)]

create_session(st, session_id, t) ==
    LET conversation_id == Len(st.c) + 1
        conversation == ConversationAddMessage(<<>>, Primer)
    IN  [s |-> [x \in DOMAIN st.s \cup {session_id} |->
                    IF x = session_id
                    THEN SessionInfo(conversation_id, t)
                    ELSE st.s[x]],
         c |-> Append(st.c, conversation)]

\* Mutant: a lookup that does not refresh last_activity.
get_session_no_touch(st, session_id, t) ==
    IF session_id \in DOMAIN st.s
    THEN [found |-> TRUE, st |-> st]
    ELSE [found |-> FALSE, st |-> st]

\* get_session: found says whether a session was returned.
get_session(st, session_id, t) ==
    IF session_id \in DOMAIN st.s
    THEN [found |-> TRUE,
          st |-> [st EXCEPT !.s[session_id].last_activity = t]]
    ELSE [found |-> FALSE, st |-> st]

\* Mutant: the session is marked inactive but left in the table.
end_session_keep(st, session_id) == st

\* Mutant: ending an id that is not live empties the session table.
end_session_absent_clears(st, session_id) ==
    IF session_id \in DOMAIN st.s
    THEN [st EXCEPT !.s = [x \in DOMAIN st.s \ {session_id} |-> st.s[x]]]
    ELSE [st EXCEPT !.s = <<>>]

\* Mutant: ending one live session ends every session.
end_session_all(st, session_id) ==
    IF session_id \in DOMAIN st.s
    THEN [st EXCEPT !.s = <<>>]
    ELSE st

\* Mutant: ending a session also deletes its conversation when that is the
\* newest one in the table.
end_session_forgets(st, session_id) ==
    IF session_id \in DOMAIN st.s
    THEN [s |-> [x \in DOMAIN st.s \ {session_id} |-> st.s[x]],
          c |-> IF st.s[session_id].conversation_id = Len(st.c)
                THEN SubSeq(st.c, 1, Len(st.c) - 1)
                ELSE st.c]
    ELSE st

end_session(st, session_id) ==
    IF session_id \in DOMAIN st.s
    THEN [st EXCEPT !.s = [x \in DOMAIN st.s \ {session_id} |-> st.s[x]]]
    ELSE st

\* get_conversation: 0 stands for None.
get_conversation(st, conversation_id) ==
    IF conversation_id \in 1..Len(st.c) THEN conversation_id ELSE 0

\* Mutant: the message is written over the last appended one (a lost append).
add_message_lost(st, session_id, role, content, metadata, t) ==
    LET g == get_session(st, session_id, t)
        cid == get_conversation(g.st, g.st.s[session_id].conversation_id)
        message == Message(role, content, metadata)
    IN  IF ~g.found
        THEN [status |-> "SessionNotFound", st |-> g.st, out |-> <<>>]
        ELSE IF cid = 0
        THEN [status |-> "ConversationNotFound", st |-> g.st, out |-> <<>>]
        ELSE [status |-> "ok",
              st |-> [s |-> [g.st.s EXCEPT
                               ![session_id].message_count = @ + 1,
                               ![session_id].last_activity = t],
                      c |-> [g.st.c EXCEPT
                               ![cid] = IF Len(@) > 1
                                        THEN [@ EXCEPT ![Len(@)] = message]
                                        ELSE ConversationAddMessage(@, message)]],
              out |-> <<message>>]

\* Mutant: the message is appended but the session's counter is not advanced.
add_message_no_count(st, session_id, role, content, metadata, t) ==
    LET g == get_session(st, session_id, t)
        cid == get_conversation(g.st, g.st.s[session_id].conversation_id)
        message == Message(role, content, metadata)
    IN  IF ~g.found
        THEN [status |-> "SessionNotFound", st |-> g.st, out |-> <<>>]
        ELSE IF cid = 0
        THEN [status |-> "ConversationNotFound", st |-> g.st, out |-> <<>>]
        ELSE [status |-> "ok",
              st |-> [s |-> [g.st.s EXCEPT ![session_id].last_activity = t],
                      c |-> [g.st.c EXCEPT
                               ![cid] = ConversationAddMessage(@, message)]],
              out |-> <<message>>]

\* Mutant: a missing session is created on the fly, as send_message does.
add_message_upsert(st, session_id, role, content, metadata, t) ==
    LET g == get_session(st, session_id, t)
        st1 == IF g.found THEN g.st ELSE create_session(st, session_id, t)
        cid == st1.s[session_id].conversation_id
        message == Message(role, content, metadata)
    IN  [status |-> "ok",
         st |-> [s |-> [st1.s EXCEPT
                          ![session_id].message_count = @ + 1,
                          ![session_id].last_activity = t],
                 c |-> [st1.c EXCEPT
                          ![cid] = ConversationAddMessage(@, message)]],
         out |-> <<message>>]

\* add_message: status "ok" with the message in out, or the error raised.
add_message(st, session_id, role, content, metadata, t) ==
    LET g == get_session(st, session_id, t)
        cid == get_conversation(g.st, g.st.s[session_id].conversation_id)
        message == Message(role, content, metadata)
    IN  IF ~g.found
        THEN [status |-> "SessionNotFound", st |-> g.st, out |-> <<>>]
        ELSE IF cid = 0
        THEN [status |-> "ConversationNotFound", st |-> g.st, out |-> <<>>]
        ELSE [status |-> "ok",
              st |-> [s |-> [g.st.s EXCEPT
                               ![session_id].message_count = @ + 1,
                               ![session_id].last_activity = t],
                      c |-> [g.st.c EXCEPT
                               ![cid] = ConversationAddMessage(@, message)]],
              out |-> <<message>>]

\* Mutant: max_messages is not passed on, the whole history is returned.
get_conversation_context_all(st, session_id, max_messages, t) ==
    LET g == get_session(st, session_id, t)
        cid == get_conversation(g.st, g.st.s[session_id].conversation_id)
    IN  IF ~g.found THEN [st |-> g.st, out |-> <<>>]
        ELSE IF cid = 0 THEN [st |-> g.st, out |-> <<>>]
        ELSE [st |-> g.st,
              out |-> ConversationGetContext(g.st.c[cid], Len(g.st.c[cid]))]

\* Mutant: an unknown session id is registered by the lookup of its context.
get_conversation_context_upsert(st, session_id, max_messages, t) ==
    LET g == get_session(st, session_id, t)
        st1 == IF g.found THEN g.st ELSE create_session(st, session_id, t)
        cid == st1.s[session_id].conversation_id
    IN  [st |-> st1, out |-> ConversationGetContext(st1.c[cid], max_messages)]

get_conversation_context(st, session_id, max_messages, t) ==
    LET g == get_session(st, session_id, t)
        cid == get_conversation(g.st, g.st.s[session_id].conversation_id)
    IN  IF ~g.found THEN [st |-> g.st, out |-> <<>>]
        ELSE IF cid = 0 THEN [st |-> g.st, out |-> <<>>]
        ELSE [st |-> g.st,
              out |-> ConversationGetContext(g.st.c[cid], max_messages)]

\* export_conversation (format json): 404 without a live session or without
\* its conversation, else every message of the session's conversation.
export_conversation(st, session_id, t) ==
    LET g == get_session(st, session_id, t)
        cid == get_conversation(g.st, g.st.s[session_id].conversation_id)
    IN  IF ~g.found THEN [st |-> g.st, status |-> 404, messages |-> <<>>]
        ELSE IF cid = 0 THEN [st |-> g.st, status |-> 404, messages |-> <<>>]
        ELSE [st |-> g.st, status |-> 200, messages |-> g.st.c[cid]]

\* get_stats: the sizes of the two tables and the number of stored messages.
RECURSIVE MessagesIn(_)
MessagesIn(c) == IF c = <<>> THEN 0 ELSE Len(Head(c)) + MessagesIn(Tail(c))

get_stats(st) ==
    [active_sessions |-> Cardinality(DOMAIN st.s),
     total_conversations |-> Len(st.c),
     total_messages |-> MessagesIn(st.c)]

\* One iteration of the loop of _cleanup_sessions, after the sleep: the
\* sessions idle for longer than the timeout are collected, then ended.
\* Mutant: the operands of the subtraction are swapped.
ExpiredAt_swapped(s, t) == {x \in DOMAIN s : s[x].last_activity - t > SessionTimeout}

ExpiredAt(s, t) == {x \in DOMAIN s : t - s[x].last_activity > SessionTimeout}

RECURSIVE EndAll(_, _)
EndAll(st, ids) ==
    IF ids = {} THEN st
    ELSE LET x == CHOOSE y \in ids : TRUE
         IN  EndAll(end_session(st, x), ids \ {x})

\* Mutant: the sweep ends every session, idle or not.
cleanup_sessions_all(st, t) == EndAll(st, DOMAIN st.s)

cleanup_sessions(st, t) == EndAll(st, ExpiredAt(st.s, t))

\* ------------------------------------------------------------- ToolManager
\* A tool object is a record; an attribute the object does not have is a
\* field the record does not have.  metadata is what the ToolMetadata of the
\* tool carries; execute, when present, says what the tool body does.
base == <<"b","a","s","e">>

\* BaseTool() as base_tool.py defines it: metadata of name and description,
\* a run method, no execute method.
BaseToolObject ==
    [metadata |-> [name |-> base, description |-> "Base tool class."]]

ToolObject(name, requires_confirmation, category, body) ==
    [metadata |-> [name |-> name, description |-> "",
                   requires_confirmation |-> requires_confirmation,
                   category |-> category],
     execute |-> body]

\* What a tool body may do: return a success, return its own failure, raise.
Bodies == {"ok", "error_result", "raises"}

ToolObjects ==
    {BaseToolObject}
    \cup {ToolObject(write_file, TRUE, "file_system", "ok")}
    \cup {ToolObject(web_search, FALSE, "web", b) : b \in Bodies}
    \cup {ToolObject(system_command, rc, "system", "ok") : rc \in BOOLEAN}

ToolNames == {t.metadata.name : t \in ToolObjects} \cup {delete_file}

Err(msg, arg) == [msg |-> msg, arg |-> arg]

\* ToolResult.__init__(self, success, output=None, error=None): a call
\* without success, or with any other keyword argument, is a TypeError;
\* output and error are None when they are not given.
ToolResult(kwargs) ==
    IF /\ "success" \in DOMAIN kwargs
       /\ DOMAIN kwargs \subseteq {"success", "output", "error"}
    THEN [raised |-> FALSE,
          value |-> [success |-> kwargs.success,
                     output |-> IF "output" \in DOMAIN kwargs
                                THEN kwargs.output ELSE "None",
                     error |-> IF "error" \in DOMAIN kwargs
                               THEN kwargs.error ELSE "None"]]
    ELSE [raised |-> TRUE, value |-> <<>>]

Returned(result, invoked) ==
    [kind |-> "return", result |-> result, exc |-> "", invoked |-> invoked]
Raised(exc, invoked) ==
    [kind |-> "raise", result |-> <<>>, exc |-> exc, invoked |-> invoked]

\* A refusal: the ToolResult the executor builds, or the error building it.
Refusal(kwargs) ==
    LET r == ToolResult(kwargs)
    IN  IF r.raised THEN Raised("TypeError", FALSE) ELSE Returned(r.value, FALSE)

\* The mapping an upload tool returns as its output, with the keys
\* original_name and saved_as, as one symbol.
FileInfo == "{original_name: n, saved_as: s}"

\* tool.execute(session_id, **parameters) of a tool that has the method.
ToolBody(tool) ==
    CASE tool.execute = "ok" ->
             Returned([success |-> TRUE, output |-> "out", error |-> Err("", <<>>)],
                      TRUE)
      [] tool.execute = "ok_file" ->
             Returned([success |-> TRUE, output |-> FileInfo,
                       error |-> Err("", <<>>)], TRUE)
      [] tool.execute = "error_result" ->
             Returned([success |-> FALSE, output |-> "None",
                       error |-> Err("tool failed", <<>>)], TRUE)
      [] tool.execute = "raises" -> Raised("RuntimeError", TRUE)

\* _is_tool_enabled: "AttributeError" when the metadata has no category.
is_tool_enabled(tool, enabled) ==
    IF "category" \notin DOMAIN tool.metadata THEN "AttributeError"
    ELSE IF tool.metadata.category = "system"
            /\ tool.metadata.name = system_command
    THEN (IF enabled THEN "yes" ELSE "no")
    ELSE "yes"

execute_tool(registry, enabled, tool_name, confirm) ==
    IF tool_name \notin DOMAIN registry
    THEN Refusal([success |-> FALSE, output |-> "None",
                  error |-> Err("Tool not found: <name>", tool_name),
                  execution_time |-> 0])
    ELSE LET tool == registry[tool_name]
         IN  IF "requires_confirmation" \notin DOMAIN tool.metadata
             THEN Raised("AttributeError", FALSE)
             ELSE IF tool.metadata.requires_confirmation /\ ~confirm
             THEN Refusal([success |-> FALSE, output |-> "None",
                           error |-> Err("Tool requires user confirmation", <<>>),
                           execution_time |-> 0,
                           metadata |-> [requires_confirmation |-> TRUE]])
             ELSE IF is_tool_enabled(tool, enabled) = "AttributeError"
             THEN Raised("AttributeError", FALSE)
             ELSE IF is_tool_enabled(tool, enabled) = "no"
             THEN Refusal([success |-> FALSE, output |-> "None",
                           error |-> Err("Tool <name> is disabled", tool_name),
                           execution_time |-> 0])
             ELSE IF "execute" \notin DOMAIN tool
             THEN Raised("AttributeError", FALSE)
             ELSE ToolBody(tool)

ToolRet(op, tool_name, confirm, registry, outcome) ==
    [op |-> op, tool_name |-> tool_name, confirm |-> confirm,
     registered |-> tool_name \in DOMAIN registry,
     tool |-> IF tool_name \in DOMAIN registry THEN registry[tool_name] ELSE <<>>,
     outcome |-> outcome]

NoToolRet == ToolRet("none", <<>>, FALSE, <<>>, Returned(<<>>, FALSE))

\* ------------------------------------------------------------------- inputs
Roles == {"tool", "system"}
Contents == {<<"h","i">>}
RespPlain == <<"o","k">>
RespWrite == ToolOpen \o <<" ">> \o write_file \o <<"(","\"","n","\"",")","]">>
Responses == {RespPlain, RespWrite}

\* Session ids a client can name: its own, and the generated ones it was given.
KnownIds == ClientIds \cup {GenIds[i] : i \in 1..genCount}

St == [s |-> sessions, c |-> conversations]

Ret(op, sid, n, status, out) ==
    [op |-> op, sid |-> sid, n |-> n, status |-> status, out |-> out]

IdleTurn ==
    [pc |-> "idle", sid |-> None, context |-> <<>>, status |-> 0,
     tool_calls |-> <<>>, requires_confirmation |-> FALSE]

\* History of the add_message calls that returned, per conversation; by is
\* the turn that made the call, 0 for a direct call.
LogEntry(message, by) ==
    [role |-> message.role, content |-> message.content,
     metadata |-> message.metadata, by |-> by]

\* The log after a step that took the tables from st0 to st1, in which the
\* add_message call a (made by `by`) returned.
LogAfter(log, st1, a, sid, by) ==
    LET grown == [i \in 1..Len(st1.c) |-> IF i <= Len(log) THEN log[i] ELSE <<>>]
    IN  IF a.status = "ok"
        THEN [grown EXCEPT ![st1.s[sid].conversation_id] =
                               Append(@, LogEntry(a.out[1], by))]
        ELSE grown

\* Room left, within the bound, for one more message.
RECURSIVE TotalLen(_)
TotalLen(log) ==
    IF log = <<>> THEN 0 ELSE Len(Head(log)) + TotalLen(Tail(log))

HasRoom == TotalLen(appended) < MaxMsgs

\* parse_tool_calls has not been called.
NotParsed == [done |-> FALSE, tool_calls |-> <<>>]

\* The by-mark of the add_message calls made by the streaming request.
StreamTurn == -1

\* The streaming request before it arrives.
IdleStream ==
    [pc |-> "idle", sid |-> None, context |-> <<>>, status |-> 0,
     full_response |-> <<>>, events |-> <<>>]

\* No health probe has been answered.
NoHealth ==
    [llm |-> FALSE, file_system |-> FALSE, healthy |-> FALSE, probes |-> 0]

\* The application before its lifespan starts: whether the backend answers
\* GET /api/tags with status 200, and whether the answer lists any model.
NewApp(backend, models) ==
    [phase |-> "down", backend |-> backend, models |-> models,
     llm_service |-> FALSE, tool_manager |-> FALSE, initialized |-> FALSE,
     health |-> NoHealth, sweep_errors |-> 0]

\* The application serving requests after a startup that found the backend
\* and a model.
RunningApp ==
    [NewApp(TRUE, TRUE) EXCEPT !.phase = "up", !.llm_service = TRUE,
                         !.tool_manager = TRUE, !.initialized = TRUE]

Init ==
    /\ sessions = <<>>
    /\ conversations = <<>>
    /\ cleanupTask = "none"
    /\ orphanTasks = FALSE
    /\ now = 0
    /\ genCount = 0
    /\ turns = [t \in Turns |-> IdleTurn]
    /\ ret = Ret("none", None, 0, "ok", <<>>)
    /\ appended = <<>>
    /\ tools = <<>>
    /\ enable_system_commands = FALSE
    /\ toolRet = NoToolRet
    /\ full_response = <<>>
    /\ parsed = NotParsed
    /\ stream = IdleStream
    /\ app = RunningApp

\* ------------------------------------------------------------ LLMService.chat
\* ToolManager.get_tools_description: the header, then for each category that
\* has tools its title and its tools, then the usage text; the fixed texts are
\* one symbol each.  Reading the category of a tool whose metadata has none
\* raises, and so does reading the parameters or the examples of a listed
\* tool whose metadata has none (the ToolMetadata of base_tool.py has neither).
Categories == <<"file_system", "web", "system", "utility">>

RECURSIVE CategoryLines(_, _)
CategoryLines(registry, k) ==
    IF k > Len(Categories) THEN <<>>
    ELSE LET listed == {n \in DOMAIN registry :
                            registry[n].metadata.category = Categories[k]}
         IN  (IF listed = {} THEN <<>> ELSE <<Categories[k], listed>>)
             \o CategoryLines(registry, k + 1)

Listed(registry) ==
    {n \in DOMAIN registry :
         \E k \in 1..Len(Categories) :
             registry[n].metadata.category = Categories[k]}

get_tools_description(registry) ==
    IF \E n \in DOMAIN registry : "category" \notin DOMAIN registry[n].metadata
    THEN [raised |-> TRUE, text |-> <<>>]
    ELSE IF \E n \in Listed(registry) :
                \/ "parameters" \notin DOMAIN registry[n].metadata
                \/ "examples" \notin DOMAIN registry[n].metadata
    THEN [raised |-> TRUE, text |-> <<>>]
    ELSE [raised |-> FALSE,
          text |-> <<"<available>">> \o CategoryLines(registry, 1)
                       \o <<"<usage>">>]

\* The first part of chat(): the tool description is appended to the first
\* system message of the list it was handed, or put in front of the list as
\* a new system message; the list is changed in place, so the result is also
\* what the caller's list holds afterwards.
chat_messages(messages, tools_description) ==
    LET systems == {i \in 1..Len(messages) : messages[i].role = "system"}
    IN  IF messages = <<>> THEN messages
        ELSE IF systems # {}
        THEN LET system_msg_index == CHOOSE i \in systems :
                                         \A j \in systems : i <= j
             IN  [messages EXCEPT ![system_msg_index].content =
                      @ \o <<"\n", "\n">> \o tools_description]
        ELSE <<[role |-> "system", content |-> tools_description]>>
             \o messages

\* ------------------------------------------------------- ChatManager actions
\* ChatManager.start: creates a sweep task and stores it in _cleanup_task,
\* whatever was there; a task that was there and still runs is not cancelled
\* and keeps sweeping.
start(task, orphans) ==
    [task |-> "running", orphans |-> (task = "running" \/ orphans)]

\* ChatManager.stop: cancels the task _cleanup_task refers to, if any; the
\* loop breaks on cancellation.
stop(task) == IF task = "running" THEN "cancelled" ELSE task

\* Some sweep task is alive.
Sweeping == cleanupTask = "running" \/ orphanTasks

Start ==
    /\ cleanupTask' = start(cleanupTask, orphanTasks).task
    /\ orphanTasks' = start(cleanupTask, orphanTasks).orphans
    /\ UNCHANGED <<sessions, conversations, now, genCount, turns, ret,
                   appended>>
    /\ UNCHANGED toolVars
    /\ UNCHANGED parseVars
    /\ UNCHANGED hostVars

Stop ==
    /\ cleanupTask' = stop(cleanupTask)
    /\ UNCHANGED orphanTasks
    /\ UNCHANGED <<sessions, conversations, now, genCount, turns, ret,
                   appended>>
    /\ UNCHANGED toolVars
    /\ UNCHANGED parseVars
    /\ UNCHANGED hostVars

\* A sweep task wakes from its sleep and runs one iteration.
Sweep ==
    /\ Sweeping
    /\ LET st1 == cleanup_sessions(St, now)
       IN  /\ sessions' = st1.s
           /\ conversations' = st1.c
    /\ UNCHANGED <<cleanupTask, orphanTasks, now, genCount, turns, ret, appended>>
    /\ UNCHANGED toolVars
    /\ UNCHANGED parseVars
    /\ UNCHANGED hostVars

\* Time passes.
Tick ==
    /\ now < MaxTime
    /\ now' = now + 1
    /\ UNCHANGED <<sessions, conversations, cleanupTask, orphanTasks, genCount, turns, ret,
                   appended>>
    /\ UNCHANGED toolVars
    /\ UNCHANGED parseVars
    /\ UNCHANGED hostVars

\* create_session(session_id), session_id = None for a generated id.
CreateSession(session_id) ==
    /\ Len(conversations) < MaxConvs
    /\ session_id = None => genCount < Len(GenIds)
    /\ LET sid == IF session_id = None THEN GenIds[genCount + 1] ELSE session_id
           st1 == create_session(St, sid, now)
       IN  /\ sessions' = st1.s
           /\ conversations' = st1.c
           /\ appended' = Append(appended, <<>>)
           /\ ret' = Ret("create_session", sid, 0, "ok", <<>>)
    /\ genCount' = IF session_id = None THEN genCount + 1 ELSE genCount
    /\ UNCHANGED <<cleanupTask, orphanTasks, now, turns>>
    /\ UNCHANGED toolVars
    /\ UNCHANGED parseVars
    /\ UNCHANGED hostVars

GetSession(session_id) ==
    /\ LET g == get_session(St, session_id, now)
       IN  /\ sessions' = g.st.s
           /\ conversations' = g.st.c
           /\ ret' = Ret("get_session", session_id, 0,
                         IF g.found THEN "ok" ELSE "absent", <<>>)
    /\ UNCHANGED <<cleanupTask, orphanTasks, now, genCount, turns, appended>>
    /\ UNCHANGED toolVars
    /\ UNCHANGED parseVars
    /\ UNCHANGED hostVars

EndSession(session_id) ==
    /\ LET st1 == end_session(St, session_id)
       IN  /\ sessions' = st1.s
           /\ conversations' = st1.c
    /\ ret' = Ret("end_session", session_id, 0, "ok", <<>>)
    /\ UNCHANGED <<cleanupTask, orphanTasks, now, genCount, turns, appended>>
    /\ UNCHANGED toolVars
    /\ UNCHANGED parseVars
    /\ UNCHANGED hostVars

AddMessage(session_id, role, content) ==
    /\ HasRoom
    /\ LET a == add_message(St, session_id, role, content, EmptyDict, now)
       IN  /\ sessions' = a.st.s
           /\ conversations' = a.st.c
           /\ appended' = LogAfter(appended, a.st, a, session_id, 0)
           /\ ret' = Ret("add_message", session_id, 0, a.status, a.out)
    /\ UNCHANGED <<cleanupTask, orphanTasks, now, genCount, turns>>
    /\ UNCHANGED toolVars
    /\ UNCHANGED parseVars
    /\ UNCHANGED hostVars

GetContext(session_id, max_messages) ==
    /\ LET r == get_conversation_context(St, session_id, max_messages, now)
       IN  /\ sessions' = r.st.s
           /\ conversations' = r.st.c
           /\ ret' = Ret("get_conversation_context", session_id, max_messages,
                         "ok", r.out)
    /\ UNCHANGED <<cleanupTask, orphanTasks, now, genCount, turns, appended>>
    /\ UNCHANGED toolVars
    /\ UNCHANGED parseVars
    /\ UNCHANGED hostVars

\* ------------------------------------------------- send_message (api/chat.py)
\* send_message with the context fetched before the user message is appended.
TurnStart_context_first(t, session_id, content) ==
    /\ turns[t].pc = "idle"
    /\ session_id = None => genCount < Len(GenIds)
    /\ LET g == get_session(St, session_id, now)
           sid == IF session_id = None THEN GenIds[genCount + 1] ELSE session_id
           st1 == IF session_id # None /\ g.found
                  THEN g.st
                  ELSE create_session(g.st, sid, now)
           cx == get_conversation_context(st1, sid, ContextWindow, now)
           a == add_message(cx.st, sid, "user", content, EmptyDict, now)
           d == get_tools_description(tools)
       IN  /\ sessions' = a.st.s
           /\ conversations' = a.st.c
           /\ appended' = LogAfter(appended, a.st, a, sid, t)
           /\ turns' = [turns EXCEPT ![t] =
                  IF a.status = "ok" /\ ~(cx.out # <<>> /\ d.raised)
                  THEN [@ EXCEPT !.pc = "llm", !.sid = sid,
                                 !.context = chat_messages(cx.out, d.text)]
                  ELSE [@ EXCEPT !.pc = "failed", !.sid = sid, !.status = 500]]
    /\ genCount' = IF session_id = None THEN genCount + 1 ELSE genCount
    /\ UNCHANGED <<cleanupTask, orphanTasks, now, ret>>
    /\ UNCHANGED toolVars
    /\ UNCHANGED parseVars
    /\ UNCHANGED hostVars

\* send_message with a context whose entries are the stored messages
\* themselves, so that what chat() writes into the system entry is written
\* into the conversation.
TurnStart_aliased(t, session_id, content) ==
    /\ turns[t].pc = "idle"
    /\ session_id = None => genCount < Len(GenIds)
    /\ LET g == get_session(St, session_id, now)
           sid == IF session_id = None THEN GenIds[genCount + 1] ELSE session_id
           st1 == IF session_id # None /\ g.found
                  THEN g.st
                  ELSE create_session(g.st, sid, now)
           a == add_message(st1, sid, "user", content, EmptyDict, now)
           cx == get_conversation_context(a.st, sid, ContextWindow, now)
           d == get_tools_description(tools)
           sent == chat_messages(cx.out, d.text)
           cid == cx.st.s[sid].conversation_id
           conv == cx.st.c[cid]
           written == [i \in 1..Len(conv) |->
                          IF Len(conv) - i < Len(cx.out)
                          THEN [conv[i] EXCEPT !.content =
                                   sent[Len(sent) - (Len(conv) - i)].content]
                          ELSE conv[i]]
       IN  /\ sessions' = cx.st.s
           /\ conversations' = [cx.st.c EXCEPT ![cid] = written]
           /\ appended' = LogAfter(appended, a.st, a, sid, t)
           /\ turns' = [turns EXCEPT ![t] =
                  IF a.status = "ok" /\ ~(cx.out # <<>> /\ d.raised)
                  THEN [@ EXCEPT !.pc = "llm", !.sid = sid, !.context = sent]
                  ELSE [@ EXCEPT !.pc = "failed", !.sid = sid, !.status = 500]]
    /\ genCount' = IF session_id = None THEN genCount + 1 ELSE genCount
    /\ UNCHANGED <<cleanupTask, orphanTasks, now, ret>>
    /\ UNCHANGED toolVars
    /\ UNCHANGED parseVars
    /\ UNCHANGED hostVars

\* From the start of the handler to the await of the HTTP call inside chat():
\* resolve or create the session, append the user message, fetch the context,
\* and, in chat(), add the tool description to it.
TurnStart(t, session_id, content) ==
    /\ turns[t].pc = "idle"
    /\ session_id = None => genCount < Len(GenIds)
    /\ LET g == get_session(St, session_id, now)
           sid == IF session_id = None THEN GenIds[genCount + 1] ELSE session_id
           st1 == IF session_id # None /\ g.found
                  THEN g.st
                  ELSE create_session(g.st, sid, now)
           a == add_message(st1, sid, "user", content, EmptyDict, now)
           cx == get_conversation_context(a.st, sid, ContextWindow, now)
           d == get_tools_description(tools)
       IN  /\ sessions' = cx.st.s
           /\ conversations' = cx.st.c
           /\ appended' = LogAfter(appended, a.st, a, sid, t)
           /\ turns' = [turns EXCEPT ![t] =
                  IF a.status = "ok" /\ ~(cx.out # <<>> /\ d.raised)
                  THEN [@ EXCEPT !.pc = "llm", !.sid = sid,
                                 !.context = chat_messages(cx.out, d.text)]
                  ELSE [@ EXCEPT !.pc = "failed", !.sid = sid, !.status = 500]]
    /\ genCount' = IF session_id = None THEN genCount + 1 ELSE genCount
    /\ UNCHANGED <<cleanupTask, orphanTasks, now, ret>>
    /\ UNCHANGED toolVars
    /\ UNCHANGED parseVars
    /\ UNCHANGED hostVars

\* send_message reporting confirmation only when every parsed call is flagged.
TurnReply_all_flagged(t, response_text) ==
    /\ turns[t].pc = "llm"
    /\ LET sid == turns[t].sid
           tool_calls == parse_tool_calls(response_text)
           a == add_message(St, sid, "assistant", response_text,
                            [tool_calls |-> tool_calls], now)
       IN  /\ sessions' = a.st.s
           /\ conversations' = a.st.c
           /\ appended' = LogAfter(appended, a.st, a, sid, t)
           /\ turns' = [turns EXCEPT ![t] =
                  IF a.status = "ok"
                  THEN [@ EXCEPT !.pc = "done", !.status = 200,
                                 !.tool_calls = tool_calls,
                                 !.requires_confirmation =
                                     \A i \in 1..Len(tool_calls) :
                                         tool_calls[i].requires_confirmation]
                  ELSE [@ EXCEPT !.pc = "failed", !.status = 500]]
    /\ UNCHANGED <<cleanupTask, orphanTasks, now, genCount, ret>>
    /\ UNCHANGED toolVars
    /\ UNCHANGED parseVars
    /\ UNCHANGED hostVars

\* The inference call returns the full text: parse it, append the assistant
\* message, answer.  An exception of add_message is answered with status 500.
TurnReply(t, response_text) ==
    /\ turns[t].pc = "llm"
    /\ LET sid == turns[t].sid
           tool_calls == parse_tool_calls(response_text)
           a == add_message(St, sid, "assistant", response_text,
                            [tool_calls |-> tool_calls], now)
       IN  /\ sessions' = a.st.s
           /\ conversations' = a.st.c
           /\ appended' = LogAfter(appended, a.st, a, sid, t)
           /\ turns' = [turns EXCEPT ![t] =
                  IF a.status = "ok"
                  THEN [@ EXCEPT !.pc = "done", !.status = 200,
                                 !.tool_calls = tool_calls,
                                 !.requires_confirmation =
                                     \E i \in 1..Len(tool_calls) :
                                         tool_calls[i].requires_confirmation]
                  ELSE [@ EXCEPT !.pc = "failed", !.status = 500]]
    /\ UNCHANGED <<cleanupTask, orphanTasks, now, genCount, ret>>
    /\ UNCHANGED toolVars
    /\ UNCHANGED parseVars
    /\ UNCHANGED hostVars

\* Mutant: a failed inference call rolls the turn back by ending its session.
TurnFail_rollback(t) ==
    /\ turns[t].pc = "llm"
    /\ turns' = [turns EXCEPT ![t] = [@ EXCEPT !.pc = "failed", !.status = 500]]
    /\ sessions' = end_session(St, turns[t].sid).s
    /\ UNCHANGED <<conversations, cleanupTask, orphanTasks, now, genCount, ret, appended>>
    /\ UNCHANGED toolVars
    /\ UNCHANGED parseVars
    /\ UNCHANGED hostVars

\* The inference call raises (backend unreachable, bad reply): status 500.
TurnFail(t) ==
    /\ turns[t].pc = "llm"
    /\ turns' = [turns EXCEPT ![t] = [@ EXCEPT !.pc = "failed", !.status = 500]]
    /\ UNCHANGED <<sessions, conversations, cleanupTask, orphanTasks, now, genCount, ret,
                   appended>>
    /\ UNCHANGED toolVars
    /\ UNCHANGED parseVars
    /\ UNCHANGED hostVars

\* ------------------------------------------------------------ specifications
\* The service: request handlers as concurrent tasks, the sweep, the clock.
Next ==
    \/ Start
    \/ Stop
    \/ Sweep
    \/ Tick
    \/ \E t \in Turns, id \in KnownIds \cup {None}, content \in Contents :
           TurnStart(t, id, content)
    \/ \E t \in Turns, r \in Responses : TurnReply(t, r)
    \/ \E t \in Turns : TurnFail(t)

Spec == Init /\ [][Next]_vars

\* The sweep task is a loop around asyncio.sleep: while it is not cancelled,
\* the event loop wakes it again and again.
LiveSpec == Spec /\ WF_vars(Sweep)

\* The ChatManager alone: its methods called directly, one caller after
\* another, as time passes.
NextChat ==
    \/ Tick
    \/ \E id \in KnownIds \cup {None} : CreateSession(id)
    \/ \E id \in KnownIds : GetSession(id)
    \/ \E id \in KnownIds : EndSession(id)
    \/ \E id \in KnownIds, role \in Roles, content \in Contents :
           AddMessage(id, role, content)
    \/ \E id \in KnownIds, n \in 0..MaxCtx : GetContext(id, n)

ChatSpec == Init /\ [][NextChat]_vars

\* ------------------------------------------------------ ToolManager actions
\* register_tool: inserts by name, overwriting an earlier tool of that name.
RegisterTool(tool) ==
    /\ tools' = [n \in DOMAIN tools \cup {tool.metadata.name} |->
                    IF n = tool.metadata.name THEN tool ELSE tools[n]]
    /\ UNCHANGED <<enable_system_commands, toolRet>>
    /\ UNCHANGED chatVars
    /\ UNCHANGED parseVars
    /\ UNCHANGED hostVars

UnregisterTool(tool_name) ==
    /\ tools' = [n \in DOMAIN tools \ {tool_name} |-> tools[n]]
    /\ UNCHANGED <<enable_system_commands, toolRet>>
    /\ UNCHANGED chatVars
    /\ UNCHANGED parseVars
    /\ UNCHANGED hostVars

ExecuteTool(tool_name, confirm) ==
    /\ toolRet' = ToolRet("execute_tool", tool_name, confirm, tools,
                          execute_tool(tools, enable_system_commands,
                                       tool_name, confirm))
    /\ UNCHANGED <<tools, enable_system_commands>>
    /\ UNCHANGED chatVars
    /\ UNCHANGED parseVars
    /\ UNCHANGED hostVars

\* The ToolManager alone, under either value of the enablement setting.
InitTool ==
    /\ sessions = <<>>
    /\ conversations = <<>>
    /\ cleanupTask = "none"
    /\ orphanTasks = FALSE
    /\ now = 0
    /\ genCount = 0
    /\ turns = [t \in Turns |-> IdleTurn]
    /\ ret = Ret("none", None, 0, "ok", <<>>)
    /\ appended = <<>>
    /\ tools = <<>>
    /\ enable_system_commands \in BOOLEAN
    /\ toolRet = NoToolRet
    /\ full_response = <<>>
    /\ parsed = NotParsed
    /\ stream = IdleStream
    /\ app = RunningApp

NextTool ==
    \/ \E tool \in ToolObjects : RegisterTool(tool)
    \/ \E n \in ToolNames : UnregisterTool(n)
    \/ \E n \in ToolNames, confirm \in BOOLEAN : ExecuteTool(n, confirm)

ToolSpec == InitTool /\ [][NextTool]_vars

\* The ChatManager as the running service has it: direct callers, the sweep
\* task beside them, the clock, and the tool executor called beside both.
NextManager ==
    \/ Start
    \/ Stop
    \/ Sweep
    \/ Tick
    \/ \E id \in KnownIds \cup {None} : CreateSession(id)
    \/ \E id \in KnownIds : GetSession(id)
    \/ \E id \in KnownIds : EndSession(id)
    \/ \E id \in KnownIds, content \in Contents :
           AddMessage(id, "tool", content)
    \/ \E id \in KnownIds : GetContext(id, ContextWindow)
    \/ ExecuteTool(web_search, FALSE)

ManagerSpec == Init /\ [][NextManager]_vars

\* ------------------- POST /tools/execute and POST /upload (api/chat.py)
\* A plug-in tool: a tool object that also has the _validate_parameters
\* method validate_tool_call calls; the field says what the method returns
\* for the parameters of the call.
PluginObject(name, requires_confirmation, category, validation, body) ==
    [metadata |-> [name |-> name, description |-> "",
                   requires_confirmation |-> requires_confirmation,
                   category |-> category],
     _validate_parameters |-> validation,
     execute |-> body]

\* What _validate_parameters may return: None, or an error text.
Validations == {"none", "error"}

\* validate_tool_call: the error text for a name that is not registered,
\* else what the tool's _validate_parameters returns; a tool object without
\* that method (BaseTool has none) raises AttributeError.
validate_tool_call(registry, tool_name) ==
    IF tool_name \notin DOMAIN registry
    THEN [kind |-> "error", detail |-> Err("Unknown tool: <name>", tool_name)]
    ELSE IF "_validate_parameters" \notin DOMAIN registry[tool_name]
    THEN [kind |-> "raise", detail |-> Err("AttributeError", <<>>)]
    ELSE IF registry[tool_name]._validate_parameters = "error"
    THEN [kind |-> "error", detail |-> Err("invalid parameters", <<>>)]
    ELSE [kind |-> "none", detail |-> Err("", <<>>)]

\* The content of the tool message.
ToolMessageContent(tool_name, result) ==
    <<"Tool: ">> \o tool_name \o <<"\n", "Result: ", result.output>>

\* The content of the system message of an upload; reading either key of an
\* output that is not a mapping with both raises.
UploadMessageContent(result) ==
    IF result.output = FileInfo
    THEN [raised |-> FALSE, text |-> <<"File uploaded: ", "n", " -> ", "s">>]
    ELSE [raised |-> TRUE, text |-> <<>>]

\* A request to one of the two endpoints: the call, what validation said,
\* the tool object the handler holds, where the handler is (suspended in the
\* tool body, or answered), what the executor did, the HTTP status.
EndpointRet(op, pc, session_id, tool_name, confirm, tool, validation, outcome,
            status) ==
    [op |-> op, pc |-> pc, session_id |-> session_id,
     tool_name |-> tool_name, confirm |-> confirm,
     registered |-> tool # <<>>, tool |-> tool,
     validation |-> validation, outcome |-> outcome, status |-> status]

\* The tool object get_tool returns, <<>> for None.
get_tool(registry, tool_name) ==
    IF tool_name \in DOMAIN registry THEN registry[tool_name] ELSE <<>>

\* The tool body has not been called.
NotRun == Returned(<<>>, FALSE)

\* The tool body has been called and has not returned.
Running == Returned(<<>>, TRUE)

\* A handler is suspended in a tool body.
Executing(op) ==
    /\ toolRet.op = op
    /\ toolRet.pc = "executing"

Suspended == Executing("POST /tools/execute") \/ Executing("POST /upload")

\* The endpoint without its validation step.
HttpExecuteTool_unvalidated(session_id, tool_name, confirm) ==
    /\ HasRoom
    /\ ~Suspended
    /\ LET validation == validate_tool_call(tools, tool_name)
           outcome == execute_tool(tools, enable_system_commands, tool_name,
                                   confirm)
       IN  toolRet' =
               IF outcome.invoked
               THEN EndpointRet("POST /tools/execute", "executing", session_id,
                                tool_name, confirm, get_tool(tools, tool_name),
                                validation.kind, Running, 0)
               ELSE EndpointRet("POST /tools/execute", "answered", session_id,
                                tool_name, confirm, get_tool(tools, tool_name),
                                validation.kind, outcome,
                                IF outcome.kind = "raise" THEN 500 ELSE 200)
    /\ UNCHANGED chatVars
    /\ UNCHANGED <<tools, enable_system_commands>>
    /\ UNCHANGED parseVars
    /\ UNCHANGED hostVars

\* The handler up to the point where it is suspended in the tool body:
\* validate (400 on an error text), then ToolManager.execute_tool up to its
\* call of tool.execute.  An HTTPException passes, any other exception is
\* answered 500; a refusal the executor returns is answered 200.
HttpExecuteTool(session_id, tool_name, confirm) ==
    /\ HasRoom
    /\ ~Suspended
    /\ LET validation == validate_tool_call(tools, tool_name)
           outcome == IF validation.kind = "none"
                      THEN execute_tool(tools, enable_system_commands,
                                        tool_name, confirm)
                      ELSE NotRun
       IN  toolRet' =
               IF outcome.invoked
               THEN EndpointRet("POST /tools/execute", "executing", session_id,
                                tool_name, confirm, get_tool(tools, tool_name),
                                validation.kind, Running, 0)
               ELSE EndpointRet("POST /tools/execute", "answered", session_id,
                                tool_name, confirm, get_tool(tools, tool_name),
                                validation.kind, outcome,
                                IF validation.kind = "error" THEN 400
                                ELSE IF validation.kind = "raise" THEN 500
                                ELSE IF outcome.kind = "raise" THEN 500
                                ELSE 200)
    /\ UNCHANGED chatVars
    /\ UNCHANGED <<tools, enable_system_commands>>
    /\ UNCHANGED parseVars
    /\ UNCHANGED hostVars

\* The handler resumes when the tool body ends: an exception of the body is
\* answered 500, a result without success is returned, and a result with
\* success is appended as a tool message and returned; result.dict() and
\* add_message may raise, which is answered 500 with nothing appended.
\* has_dict: whether the result object the body returned has the dict()
\* method the handler calls (the ToolResult of base_tool.py has none).
HttpExecuteReturn(has_dict) ==
    /\ Executing("POST /tools/execute")
    /\ LET outcome == ToolBody(toolRet.tool)
           stored == outcome.kind = "return" /\ outcome.result.success
                         /\ has_dict
           a == add_message(St, toolRet.session_id, "tool",
                            ToolMessageContent(toolRet.tool_name, outcome.result),
                            [tool_result |-> outcome.result], now)
           status == IF outcome.kind = "raise" THEN 500
                     ELSE IF ~outcome.result.success THEN 200
                     ELSE IF ~has_dict THEN 500
                     ELSE IF a.status = "ok" THEN 200 ELSE 500
       IN  /\ toolRet' = [toolRet EXCEPT !.pc = "answered",
                                         !.outcome = outcome,
                                         !.status = status]
           /\ IF stored
              THEN /\ sessions' = a.st.s
                   /\ conversations' = a.st.c
                   /\ appended' = LogAfter(appended, a.st, a,
                                           toolRet.session_id, 0)
              ELSE UNCHANGED <<sessions, conversations, appended>>
    /\ UNCHANGED <<cleanupTask, orphanTasks, now, genCount, turns, ret>>
    /\ UNCHANGED <<tools, enable_system_commands>>
    /\ UNCHANGED parseVars
    /\ UNCHANGED hostVars

\* settings.max_file_size_mb * 1024 * 1024, with the default of config.py.
max_size == 10 * 1024 * 1024

\* The uploads a client may send: with or without a filename, of a size up
\* to the limit or over it.
Filenames == {<<>>, <<"n">>}
FileSizes == {max_size, max_size + 1}

\* POST /upload up to the point where it is suspended in the tool body: 400
\* without a filename, 413 over the size limit, 500 when no file_upload tool
\* is registered or the tool object has no execute method; the tool is
\* called without validation and without a confirmation check.
UploadFile(session_id, filename, size) ==
    /\ HasRoom
    /\ ~Suspended
    /\ LET upload_tool == get_tool(tools, file_upload)
           Answer(status) ==
               EndpointRet("POST /upload", "answered", session_id, file_upload,
                           FALSE, upload_tool, "skipped", NotRun, status)
       IN  toolRet' =
               IF filename = <<>> THEN Answer(400)
               ELSE IF size > max_size THEN Answer(413)
               ELSE IF upload_tool = <<>> THEN Answer(500)
               ELSE IF "execute" \notin DOMAIN upload_tool
               THEN [Answer(500) EXCEPT
                         !.outcome = Raised("AttributeError", FALSE)]
               ELSE EndpointRet("POST /upload", "executing", session_id,
                                file_upload, FALSE, upload_tool, "skipped",
                                Running, 0)
    /\ UNCHANGED chatVars
    /\ UNCHANGED <<tools, enable_system_commands>>
    /\ UNCHANGED parseVars
    /\ UNCHANGED hostVars

\* POST /upload resumes when the tool body ends: an exception of the body
\* and a result without success are answered 500; a result with success is
\* appended as a system message and answered 200, unless building the
\* content or add_message raises, which is answered 500 with nothing
\* appended.
UploadReturn ==
    /\ Executing("POST /upload")
    /\ LET outcome == ToolBody(toolRet.tool)
           content == UploadMessageContent(outcome.result)
           stored == outcome.kind = "return" /\ outcome.result.success
                         /\ ~content.raised
           a == add_message(St, toolRet.session_id, "system", content.text,
                            [file_upload |-> outcome.result.output], now)
           status == IF outcome.kind = "raise" THEN 500
                     ELSE IF ~outcome.result.success THEN 500
                     ELSE IF content.raised THEN 500
                     ELSE IF a.status = "ok" THEN 200 ELSE 500
       IN  /\ toolRet' = [toolRet EXCEPT !.pc = "answered",
                                         !.outcome = outcome,
                                         !.status = status]
           /\ IF stored
              THEN /\ sessions' = a.st.s
                   /\ conversations' = a.st.c
                   /\ appended' = LogAfter(appended, a.st, a,
                                           toolRet.session_id, 0)
              ELSE UNCHANGED <<sessions, conversations, appended>>
    /\ UNCHANGED <<cleanupTask, orphanTasks, now, genCount, turns, ret>>
    /\ UNCHANGED <<tools, enable_system_commands>>
    /\ UNCHANGED parseVars
    /\ UNCHANGED hostVars

\* The registry after register_tool has been called with each of these tools.
Registry(registered) ==
    [n \in {t.metadata.name : t \in registered} |->
        CHOOSE t \in registered : t.metadata.name = n]

\* The tools the endpoints are run against: the BaseTool of base_tool.py, a
\* tool with execute and no validation method, plug-ins with both, and
\* upload tools, one tool of a name in each registry.
EndpointRegistries ==
    {Registry({}),
     Registry({BaseToolObject,
               ToolObject(system_command, FALSE, "system", "ok"),
               PluginObject(write_file, TRUE, "file_system", "error", "ok"),
               PluginObject(web_search, FALSE, "web", "none", "ok"),
               ToolObject(file_upload, TRUE, "file_system", "ok_file")}),
     Registry({PluginObject(system_command, FALSE, "system", "none", "ok"),
               PluginObject(write_file, TRUE, "file_system", "none", "ok"),
               PluginObject(web_search, FALSE, "web", "none", "error_result"),
               ToolObject(file_upload, TRUE, "file_system", "ok")}),
     Registry({PluginObject(web_search, FALSE, "web", "none", "raises"),
               ToolObject(file_upload, TRUE, "file_system", "error_result")}),
     Registry({PluginObject(web_search, FALSE, "web", "error", "ok"),
               ToolObject(file_upload, TRUE, "file_system", "raises")}),
     Registry({[metadata |-> [name |-> file_upload, description |-> ""]]})}

\* The names a call to the endpoint may carry.
EndpointNames ==
    {base, system_command, write_file, web_search, file_upload, delete_file}

InitEndpoint ==
    /\ sessions = <<>>
    /\ conversations = <<>>
    /\ cleanupTask = "none"
    /\ orphanTasks = FALSE
    /\ now = 0
    /\ genCount = 0
    /\ turns = [t \in Turns |-> IdleTurn]
    /\ ret = Ret("none", None, 0, "ok", <<>>)
    /\ appended = <<>>
    /\ tools \in EndpointRegistries
    /\ enable_system_commands = FALSE
    /\ toolRet = NoToolRet
    /\ full_response = <<>>
    /\ parsed = NotParsed
    /\ stream = IdleStream
    /\ app = RunningApp

\* The two endpoints, next to clients that create and end the session the
\* requests name.
NextEndpoint ==
    \/ \E id \in ClientIds : CreateSession(id)
    \/ \E id \in ClientIds : EndSession(id)
    \/ \E id \in ClientIds, n \in EndpointNames, confirm \in BOOLEAN :
           HttpExecuteTool(id, n, confirm)
    \/ \E has_dict \in BOOLEAN : HttpExecuteReturn(has_dict)
    \/ \E id \in ClientIds, filename \in Filenames, size \in FileSizes :
           UploadFile(id, filename, size)
    \/ UploadReturn

EndpointSpec == InitEndpoint /\ [][NextEndpoint]_vars

\* ------------------------------------------------------------ parser inputs
\* Texts handed to parse_tool_calls are built from pieces: whole calls in
\* the grammar of the prompt, plain text, and parts of a call.
Quoted(s) == <<"\"">> \o s \o <<"\"">>
Call(name, args) == ToolOpen \o <<" ">> \o name \o <<"(">> \o args \o <<")", "]">>

PythonTutorials ==
    <<"p","y","t","h","o","n"," ","t","u","t","o","r","i","a","l","s">>
NotesTxt == <<"n","o","t","e","s",".","t","x","t">>
foo == <<"f","o","o">>

CallSearch == Call(web_search, Quoted(PythonTutorials))
CallRead == Call(read_file, Quoted(NotesTxt))
CallWrite == ToolOpen \o write_file \o <<"(", "'", "n", "'", ")", "]">>
CallDelete == Call(delete_file, Quoted(<<"a">>))
CallSystemEmpty == Call(system_command, <<>>)
CallSearchEmpty == Call(web_search, <<>>)
CallUnknown == Call(foo, <<"x", ",", " ", "\"", "y">>)
Plain == <<" ", "o", "k", " ">>
OpenOnly == ToolOpen \o <<" ">> \o web_search \o <<"(">>
CloseOnly == <<")", "]">>
Newline == <<"\n">>

\* An argument in two layers of double quotes, and one in mixed quotes.
CallDoubled == Call(read_file, Quoted(Quoted(<<"n">>)))
CallMixed == Call(web_search, <<"'">> \o Quoted(<<"n">>) \o <<"'">>)

\* A form feed between the colon and the name; a name outside ASCII.
CallFormFeed == ToolOpen \o <<"\f">> \o web_search \o <<"(", "\"", "n", "\"", ")", "]">>
CallLatin == Call(<<"é">>, <<"a">>)

Pieces == {CallSearch, CallRead, CallWrite, CallDelete, CallSystemEmpty,
           CallSearchEmpty, CallUnknown, Plain, OpenOnly, CloseOnly, Newline,
           CallDoubled, CallMixed, CallFormFeed, CallLatin}

RECURSIVE TextsOf(_)
TextsOf(n) ==
    IF n = 0 THEN {<<>>}
    ELSE LET shorter == TextsOf(n - 1)
         IN  shorter \cup {t \o p : t \in shorter, p \in Pieces}

\* Registries the parser runs beside: an empty one, and one whose metadata
\* contradicts the parser's list of dangerous names.
ContraryRegistry ==
    [n \in {system_command, web_search} |->
        IF n = system_command
        THEN ToolObject(system_command, FALSE, "system", "ok")
        ELSE ToolObject(web_search, TRUE, "web", "ok")]

ParseRegistries == {<<>>, ContraryRegistry}

\* ------------------------------------------ send_message_stream (api/chat.py)
MaxChunks == 2          \* fragments the inference backend streams for one reply

\* The fragments the backend may stream; a call may be split over two.
ChunkPlain == <<"o","k">>
ChunkHead == ToolOpen \o <<" ">> \o write_file \o <<"(">>
ChunkTail == <<"\"","n","\"",")","]">>
Chunks == {ChunkPlain, ChunkHead, ChunkTail}

\* The typed events of the stream.
SessionEvent(session_id) == [type |-> "session", session_id |-> session_id]
ContentEvent(chunk) == [type |-> "content", content |-> chunk]
ToolCallsEvent(tool_calls) == [type |-> "tool_calls", tool_calls |-> tool_calls]
DoneEvent == [type |-> "done"]

\* The handler up to the return of the StreamingResponse: resolve or create
\* the session, append the user message, fetch the context.
StreamStart(session_id, content) ==
    /\ stream.pc = "idle"
    /\ session_id = None => genCount < Len(GenIds)
    /\ LET g == get_session(St, session_id, now)
           sid == IF session_id = None THEN GenIds[genCount + 1] ELSE session_id
           st1 == IF session_id # None /\ g.found
                  THEN g.st
                  ELSE create_session(g.st, sid, now)
           a == add_message(st1, sid, "user", content, EmptyDict, now)
           cx == get_conversation_context(a.st, sid, ContextWindow, now)
       IN  /\ sessions' = cx.st.s
           /\ conversations' = cx.st.c
           /\ appended' = LogAfter(appended, a.st, a, sid, StreamTurn)
           /\ stream' = IF a.status = "ok"
                        THEN [stream EXCEPT !.pc = "ready", !.sid = sid,
                                            !.context = cx.out, !.status = 200]
                        ELSE [stream EXCEPT !.pc = "failed", !.sid = sid,
                                            !.status = 500]
    /\ genCount' = IF session_id = None THEN genCount + 1 ELSE genCount
    /\ UNCHANGED <<cleanupTask, orphanTasks, now, turns, ret>>
    /\ UNCHANGED toolVars
    /\ UNCHANGED parseVars
    /\ UNCHANGED app

\* generate() starts: it sends the session event and is suspended at that
\* yield until the server has sent it; chat() has not been called yet.
StreamSession ==
    /\ stream.pc = "ready"
    /\ stream' = [stream EXCEPT !.pc = "session",
                                !.events = Append(@, SessionEvent(stream.sid))]
    /\ UNCHANGED chatVars
    /\ UNCHANGED toolVars
    /\ UNCHANGED parseVars
    /\ UNCHANGED app

\* generate() resumes after the session event and calls chat(), which adds
\* the tool description to the context and awaits the backend.  A failure to
\* build the description ends the generator with the exception.
StreamOpen ==
    /\ stream.pc = "session"
    /\ LET d == get_tools_description(tools)
       IN  stream' =
               IF stream.context # <<>> /\ d.raised
               THEN [stream EXCEPT !.pc = "aborted"]
               ELSE [stream EXCEPT !.pc = "streaming",
                                   !.context = chat_messages(@, d.text)]
    /\ UNCHANGED chatVars
    /\ UNCHANGED toolVars
    /\ UNCHANGED parseVars
    /\ UNCHANGED app

\* The backend delivers one fragment: it is added to the text and sent.
StreamChunk(chunk) ==
    /\ stream.pc = "streaming"
    /\ Cardinality({i \in 1..Len(stream.events) :
                        stream.events[i].type = "content"}) < MaxChunks
    /\ stream' = [stream EXCEPT !.full_response = @ \o chunk,
                                !.events = Append(@, ContentEvent(chunk))]
    /\ UNCHANGED chatVars
    /\ UNCHANGED toolVars
    /\ UNCHANGED parseVars
    /\ UNCHANGED app

\* The rest of generate() from the append of the assistant message: with the
\* session present the message is stored and the done event sent; otherwise
\* add_message raises and the generator ends with the exception.
StreamAppend(st, sm, tool_calls, t) ==
    LET a == add_message(st, sm.sid, "assistant", sm.full_response,
                         [tool_calls |-> tool_calls], t)
    IN  [a |-> a,
         stream |-> IF a.status = "ok"
                    THEN [sm EXCEPT !.pc = "done",
                                    !.events = Append(@, DoneEvent)]
                    ELSE [sm EXCEPT !.pc = "aborted"]]

\* generate() with the partial text stored when the caller disconnects.
StreamCancel_persists ==
    /\ stream.pc \in {"session", "streaming", "tool_calls"}
    /\ LET r == StreamAppend(St, stream,
                             parse_tool_calls(stream.full_response), now)
       IN  /\ sessions' = r.a.st.s
           /\ conversations' = r.a.st.c
           /\ appended' = LogAfter(appended, r.a.st, r.a, stream.sid, StreamTurn)
           /\ stream' = [stream EXCEPT !.pc = "cancelled"]
    /\ UNCHANGED <<cleanupTask, orphanTasks, now, genCount, turns, ret>>
    /\ UNCHANGED toolVars
    /\ UNCHANGED parseVars
    /\ UNCHANGED app

\* The backend ends its stream: the text is parsed; with calls, the
\* tool_calls event is sent and generate() is suspended there; without, it
\* goes on to the append.
StreamEnd ==
    /\ stream.pc = "streaming"
    /\ LET tool_calls == parse_tool_calls(stream.full_response)
           r == StreamAppend(St, stream, tool_calls, now)
       IN  IF tool_calls # <<>>
           THEN /\ stream' = [stream EXCEPT
                                  !.pc = "tool_calls",
                                  !.events = Append(@, ToolCallsEvent(tool_calls))]
                /\ UNCHANGED <<sessions, conversations, appended>>
           ELSE /\ sessions' = r.a.st.s
                /\ conversations' = r.a.st.c
                /\ appended' = LogAfter(appended, r.a.st, r.a, stream.sid,
                                        StreamTurn)
                /\ stream' = r.stream
    /\ UNCHANGED <<cleanupTask, orphanTasks, now, genCount, turns, ret>>
    /\ UNCHANGED toolVars
    /\ UNCHANGED parseVars
    /\ UNCHANGED app

\* generate() resumes after the tool_calls event: the append, then done.
StreamSave ==
    /\ stream.pc = "tool_calls"
    /\ LET r == StreamAppend(St, stream,
                             parse_tool_calls(stream.full_response), now)
       IN  /\ sessions' = r.a.st.s
           /\ conversations' = r.a.st.c
           /\ appended' = LogAfter(appended, r.a.st, r.a, stream.sid, StreamTurn)
           /\ stream' = r.stream
    /\ UNCHANGED <<cleanupTask, orphanTasks, now, genCount, turns, ret>>
    /\ UNCHANGED toolVars
    /\ UNCHANGED parseVars
    /\ UNCHANGED app

\* The inference call raises, before or between fragments: chat() re-raises
\* and generate(), which catches nothing, ends with the exception.
StreamFail ==
    /\ stream.pc = "streaming"
    /\ stream' = [stream EXCEPT !.pc = "aborted"]
    /\ UNCHANGED chatVars
    /\ UNCHANGED toolVars
    /\ UNCHANGED parseVars
    /\ UNCHANGED app

\* The caller disconnects: the task running generate() is cancelled where it
\* is suspended, and nothing after that point runs.
StreamCancel ==
    /\ stream.pc \in {"session", "streaming", "tool_calls"}
    /\ stream' = [stream EXCEPT !.pc = "cancelled"]
    /\ UNCHANGED chatVars
    /\ UNCHANGED toolVars
    /\ UNCHANGED parseVars
    /\ UNCHANGED app

\* One streaming request, next to clients that end sessions.
NextStream ==
    \/ \E id \in KnownIds \cup {None}, content \in Contents :
           StreamStart(id, content)
    \/ StreamSession
    \/ StreamOpen
    \/ \E chunk \in Chunks : StreamChunk(chunk)
    \/ StreamEnd
    \/ StreamSave
    \/ StreamFail
    \/ StreamCancel
    \/ \E id \in KnownIds : EndSession(id)

StreamSpec == Init /\ [][NextStream]_vars

\* ----------------------------------------------------- application (main.py)
MaxProbes == 2          \* health probes answered in one run
MaxErrors == 1          \* sweep iterations that fail in one run

\* LLMService.initialize: it raises unless GET /api/tags answers with status
\* 200 and a model can be chosen, which is when the answer lists any model
\* (the default, the default without ":latest", or else the first listed).
llm_initialize(backend, models) == [raised |-> ~(backend /\ models)]

\* lifespan, startup part: when LLMService.initialize raises, the one try
\* block around the three initialisations skips the rest.  The two mkdir
\* calls that follow are outside the try block: with dirs_ok the application
\* serves requests either way, and without it the lifespan raises and the
\* application does not come up, the sweep task running if it was started.
Startup(dirs_ok) ==
    /\ app.phase = "down"
    /\ LET phase == IF dirs_ok THEN "up" ELSE "startup failed"
       IN  IF llm_initialize(app.backend, app.models).raised
           THEN /\ app' = [app EXCEPT !.phase = phase]
                /\ UNCHANGED <<cleanupTask, orphanTasks>>
           ELSE /\ app' = [app EXCEPT !.phase = phase, !.llm_service = TRUE,
                                      !.tool_manager = TRUE,
                                      !.initialized = TRUE]
                /\ cleanupTask' = start(cleanupTask, orphanTasks).task
                /\ orphanTasks' = start(cleanupTask, orphanTasks).orphans
    /\ UNCHANGED <<sessions, conversations, now, genCount, turns, ret,
                   appended>>
    /\ UNCHANGED toolVars
    /\ UNCHANGED parseVars
    /\ UNCHANGED stream

\* lifespan, shutdown part: chat_manager.stop() cancels the sweep task if
\* there is one.
Shutdown ==
    /\ app.phase = "up"
    /\ app' = [app EXCEPT !.phase = "stopped"]
    /\ cleanupTask' = stop(cleanupTask)
    /\ UNCHANGED orphanTasks
    /\ UNCHANGED <<sessions, conversations, now, genCount, turns, ret,
                   appended>>
    /\ UNCHANGED toolVars
    /\ UNCHANGED parseVars
    /\ UNCHANGED stream

\* LLMService.health_check: whether GET /api/tags answers with status 200.
llm_health_check(backend) == backend

\* GET /health: llm is False unless app.state has an llm_service, and then
\* what its health_check returns now; file_system is whether the sandbox
\* directory exists now; logging is True; healthy is all three.
HealthCheck(file_system) ==
    /\ app.phase = "up"
    /\ app.health.probes < MaxProbes
    /\ LET llm == IF app.llm_service THEN llm_health_check(app.backend)
                  ELSE FALSE
           logging == TRUE
       IN  app' = [app EXCEPT !.health =
                       [llm |-> llm, file_system |-> file_system,
                        healthy |-> llm /\ file_system /\ logging,
                        probes |-> @.probes + 1]]
    /\ UNCHANGED chatVars
    /\ UNCHANGED toolVars
    /\ UNCHANGED parseVars
    /\ UNCHANGED stream

\* The inference backend goes down or comes up, or the models it lists
\* appear or disappear.
BackendChange ==
    /\ \E backend, models \in BOOLEAN :
           /\ <<backend, models>> # <<app.backend, app.models>>
           /\ app' = [app EXCEPT !.backend = backend, !.models = models]
    /\ UNCHANGED chatVars
    /\ UNCHANGED toolVars
    /\ UNCHANGED parseVars
    /\ UNCHANGED stream

\* An iteration of the sweep that ends the loop when it fails.
SweepFail_breaks ==
    /\ Sweeping
    /\ app.sweep_errors < MaxErrors
    /\ \E ended \in SUBSET ExpiredAt(sessions, now) :
           LET st1 == EndAll(St, ended)
           IN  /\ sessions' = st1.s
               /\ conversations' = st1.c
    /\ app' = [app EXCEPT !.sweep_errors = @ + 1]
    /\ cleanupTask' = IF cleanupTask = "running" THEN "crashed" ELSE cleanupTask
    /\ orphanTasks' = FALSE
    /\ UNCHANGED <<now, genCount, turns, ret, appended>>
    /\ UNCHANGED toolVars
    /\ UNCHANGED parseVars
    /\ UNCHANGED stream

\* An iteration of the sweep that raises after ending some of the expired
\* sessions: the exception is logged and the loop goes back to its sleep.
SweepFail ==
    /\ Sweeping
    /\ app.sweep_errors < MaxErrors
    /\ \E ended \in SUBSET ExpiredAt(sessions, now) :
           LET st1 == EndAll(St, ended)
           IN  /\ sessions' = st1.s
               /\ conversations' = st1.c
    /\ app' = [app EXCEPT !.sweep_errors = @ + 1]
    /\ UNCHANGED <<cleanupTask, orphanTasks, now, genCount, turns, ret, appended>>
    /\ UNCHANGED toolVars
    /\ UNCHANGED parseVars
    /\ UNCHANGED stream

\* The application from before its startup, the backend reachable or not,
\* with models or without.
InitApp ==
    /\ sessions = <<>>
    /\ conversations = <<>>
    /\ cleanupTask = "none"
    /\ orphanTasks = FALSE
    /\ now = 0
    /\ genCount = 0
    /\ turns = [t \in Turns |-> IdleTurn]
    /\ ret = Ret("none", None, 0, "ok", <<>>)
    /\ appended = <<>>
    /\ tools = <<>>
    /\ enable_system_commands = FALSE
    /\ toolRet = NoToolRet
    /\ full_response = <<>>
    /\ parsed = NotParsed
    /\ stream = IdleStream
    /\ app \in {NewApp(backend, models) : backend, models \in BOOLEAN}

\* The lifespan, the health probes and the backend, next to the sweep and
\* to sessions created by the chat endpoints, which answer 503 before any
\* ChatManager call when app.state has no llm_service.
NextApp ==
    \/ \E dirs_ok \in BOOLEAN : Startup(dirs_ok)
    \/ Shutdown
    \/ \E file_system \in BOOLEAN : HealthCheck(file_system)
    \/ BackendChange
    \/ Tick
    \/ Sweep
    \/ \E id \in ClientIds :
           app.phase = "up" /\ app.llm_service /\ CreateSession(id)

AppSpec == InitApp /\ [][NextApp]_vars

\* The sweep loop with iterations that may fail, next to the ChatManager
\* calls that create and touch sessions.
NextSweep ==
    \/ Start
    \/ Stop
    \/ Sweep
    \/ SweepFail
    \/ Tick
    \/ \E id \in KnownIds \cup {None} : CreateSession(id)
    \/ \E id \in KnownIds : GetSession(id)

SweepSpec == Init /\ [][NextSweep]_vars /\ WF_vars(Sweep)

\* The send_message turns alone, over replies with no call, a call that needs
\* confirmation, a call that does not, and both.
RespSearch == ToolOpen \o <<" ">> \o web_search \o <<"(","\"","n","\"",")","]">>
TurnResponses == Responses \cup {RespSearch, RespSearch \o RespWrite}

NextTurn ==
    \/ \E t \in Turns, id \in KnownIds \cup {None}, content \in Contents :
           TurnStart(t, id, content)
    \/ \E t \in Turns, r \in TurnResponses : TurnReply(t, r)
    \/ \E t \in Turns : TurnFail(t)

TurnSpec == Init /\ [][NextTurn]_vars

\* Turns racing with what removes sessions: the sweep and explicit ends.
NextRace ==
    \/ Start
    \/ Sweep
    \/ Tick
    \/ \E id \in KnownIds : EndSession(id)
    \/ \E t \in Turns, id \in KnownIds \cup {None}, content \in Contents :
           TurnStart(t, id, content)
    \/ \E t \in Turns : TurnReply(t, RespWrite)

RaceSpec == Init /\ [][NextRace]_vars

\* The parser alone, on every text of up to MaxPieces pieces.
InitParse ==
    /\ sessions = <<>>
    /\ conversations = <<>>
    /\ cleanupTask = "none"
    /\ orphanTasks = FALSE
    /\ now = 0
    /\ genCount = 0
    /\ turns = [t \in Turns |-> IdleTurn]
    /\ ret = Ret("none", None, 0, "ok", <<>>)
    /\ appended = <<>>
    /\ tools \in ParseRegistries
    /\ enable_system_commands = FALSE
    /\ toolRet = NoToolRet
    /\ full_response \in TextsOf(MaxPieces)
    /\ parsed = NotParsed
    /\ stream = IdleStream
    /\ app = RunningApp

ParseToolCalls ==
    /\ ~parsed.done
    /\ parsed' = [done |-> TRUE, tool_calls |-> parse_tool_calls(full_response)]
    /\ UNCHANGED full_response
    /\ UNCHANGED <<sessions, conversations, cleanupTask, orphanTasks, now, genCount, turns,
                   ret, appended>>
    /\ UNCHANGED <<tools, enable_system_commands, toolRet>>
    /\ UNCHANGED hostVars

NextParse == ParseToolCalls

ParseSpec == InitParse /\ [][NextParse]_vars

\* ----------------------------- execute_tool on the calls a reply was parsed to
\* Mutant: the executor also refuses on the flag the parser put on the call.
execute_tool_call_trusts_flag(registry, enabled, tool_call, confirm) ==
    IF tool_call.requires_confirmation /\ ~confirm
    THEN Refusal([success |-> FALSE, output |-> "None",
                  error |-> Err("Tool requires user confirmation", <<>>),
                  execution_time |-> 0,
                  metadata |-> [requires_confirmation |-> TRUE]])
    ELSE execute_tool(registry, enabled, tool_call.tool_name, confirm)

\* execute_tool(session_id, tool_call, confirm) with the ToolCall object: the
\* method reads tool_call.tool_name (and hands tool_call.parameters to the
\* tool body); it never reads tool_call.requires_confirmation.
execute_tool_call(registry, enabled, tool_call, confirm) ==
    execute_tool(registry, enabled, tool_call.tool_name, confirm)

\* Registries whose metadata is laxer, or stricter, than the parser's list
\* of dangerous names.
LaxRegistry ==
    [n \in {write_file, web_search} |->
        ToolObject(n, FALSE, IF n = write_file THEN "file_system" ELSE "web",
                   "ok")]
StrictRegistry ==
    [n \in {write_file, web_search} |->
        ToolObject(n, TRUE, IF n = write_file THEN "file_system" ELSE "web",
                   "ok")]
DispatchRegistries == {ContraryRegistry, LaxRegistry, StrictRegistry}

\* Replies with up to two calls.
DispatchPieces == {CallSearch, CallWrite, CallDelete, CallSystemEmpty, Plain}
DispatchTexts == {a \o b : a, b \in DispatchPieces}

InitDispatch ==
    /\ sessions = <<>>
    /\ conversations = <<>>
    /\ cleanupTask = "none"
    /\ orphanTasks = FALSE
    /\ now = 0
    /\ genCount = 0
    /\ turns = [t \in Turns |-> IdleTurn]
    /\ ret = Ret("none", None, 0, "ok", <<>>)
    /\ appended = <<>>
    /\ tools \in DispatchRegistries
    /\ enable_system_commands \in BOOLEAN
    /\ toolRet = NoToolRet
    /\ full_response \in DispatchTexts
    /\ parsed = NotParsed
    /\ stream = IdleStream
    /\ app = RunningApp

\* The i-th call parsed from the reply is handed to the executor, with the
\* flag the parser gave it or (flip) with the opposite flag.
ExecuteToolCall(i, flip, confirm) ==
    /\ parsed.done
    /\ i \in 1..Len(parsed.tool_calls)
    /\ LET p == parsed.tool_calls[i]
           tool_call == [p EXCEPT !.requires_confirmation = (@ # flip)]
       IN  toolRet' = ToolRet("execute_tool", tool_call.tool_name, confirm,
                              tools,
                              execute_tool_call(tools, enable_system_commands,
                                                tool_call, confirm))
                          @@ [tool_call |-> tool_call]
    /\ UNCHANGED <<tools, enable_system_commands>>
    /\ UNCHANGED chatVars
    /\ UNCHANGED parseVars
    /\ UNCHANGED hostVars

NextDispatch ==
    \/ ParseToolCalls
    \/ \E i \in 1..2, flip \in BOOLEAN, confirm \in BOOLEAN :
           ExecuteToolCall(i, flip, confirm)

DispatchSpec == InitDispatch /\ [][NextDispatch]_vars

\* ===================================================================== claims
AllIds == ClientIds \cup {GenIds[i] : i \in 1..Len(GenIds)}

ConvOf(id) == conversations[sessions[id].conversation_id]

\* The messages of a log, without the history field `by`.
LogMessages(log) ==
    [i \in 1..Len(log) |-> Message(log[i].role, log[i].content, log[i].metadata)]

\* C1: whatever add_message calls the concurrent requests make, every
\* conversation is the primer followed by exactly the messages of the calls
\* that returned, one per call, in the order in which the calls returned.
C1_AppendsSerialized ==
    /\ Len(appended) = Len(conversations)
    /\ \A c \in 1..Len(conversations) :
           conversations[c] = <<Primer>> \o LogMessages(appended[c])

\* Two requests that were in flight together have both appended to one
\* conversation, and one of them has appended twice.
C1_Witness ==
    \E c \in 1..Len(appended) :
        /\ Len(appended[c]) = 3
        /\ appended[c][1].by # appended[c][2].by
        /\ appended[c][3].by # 0

\* C2: of two send_message turns on one session, each completed turn's user
\* message is immediately followed by that turn's assistant message.
C2_TurnsNotInterleaved ==
    \A t \in Turns :
        turns[t].pc = "done" =>
            \A c \in 1..Len(appended) :
                \A i \in 1..Len(appended[c]) :
                    (appended[c][i].by = t /\ appended[c][i].role = "user") =>
                        /\ i < Len(appended[c])
                        /\ appended[c][i + 1].by = t
                        /\ appended[c][i + 1].role = "assistant"

\* The context projection of a message.
Projection(m) == [role |-> m.role, content |-> m.content]

IsSuffixOf(out, messages) ==
    /\ Len(out) <= Len(messages)
    /\ \A i \in 1..Len(out) :
           out[i] = Projection(messages[Len(messages) - Len(out) + i])

\* C3: get_conversation_context on a live session returns at most
\* max_messages entries, and they are a suffix of the conversation in order.
C3_ContextIsBoundedSuffix ==
    [][\A id \in AllIds, n \in 0..MaxCtx :
          (id \in DOMAIN sessions /\ GetContext(id, n)) =>
              /\ Len(ret'.out) <= n
              /\ IsSuffixOf(ret'.out, ConvOf(id))]_vars

\* A context call that cut the history: one entry asked for, one returned,
\* out of a conversation of three or more messages.
C3_Witness ==
    /\ ret.op = "get_conversation_context"
    /\ ret.n = 1
    /\ Len(ret.out) = 1
    /\ ret.sid \in DOMAIN sessions
    /\ Len(ConvOf(ret.sid)) >= 3
    /\ ret.out[1] = Projection(ConvOf(ret.sid)[Len(ConvOf(ret.sid))])

\* C4: end_session removes the session; from then on, until create_session
\* registers the id again, get_session returns absent and add_message raises
\* session-not-found and appends nothing.
C4_EndedSessionIsGone ==
    [][\A id \in AllIds :
          /\ EndSession(id) => id \notin DOMAIN sessions'
          /\ (id \notin DOMAIN sessions /\ id \in DOMAIN sessions') =>
                 (ret'.op = "create_session" /\ ret'.sid = id)
          /\ (id \notin DOMAIN sessions /\ GetSession(id)) =>
                 ret'.status = "absent"
          /\ (id \notin DOMAIN sessions
                 /\ \E role \in Roles, content \in Contents :
                        AddMessage(id, role, content)) =>
                 /\ ret'.status = "SessionNotFound"
                 /\ conversations' = conversations
                 /\ sessions' = sessions]_vars

\* The generated id was created (it is known), its session is gone, no other
\* session was ever created, and add_message on it has just failed.
C4_Witness ==
    /\ ret.op = "add_message"
    /\ ret.sid = GenIds[1]
    /\ ret.status = "SessionNotFound"
    /\ Len(conversations) = 1
    /\ Len(conversations[1]) >= 2
    /\ sessions = <<>>

\* C10: every conversation starts with the system primer, and no step
\* changes the first message of a conversation or removes the conversation.
C10_PrimerFirst ==
    /\ [](\A c \in 1..Len(conversations) :
              /\ Len(conversations[c]) >= 1
              /\ conversations[c][1] = Primer
              /\ conversations[c][1].role = "system")
    /\ [][\A c \in 1..Len(conversations) :
              /\ c <= Len(conversations')
              /\ conversations'[c] # <<>>
              /\ conversations'[c][1] = conversations[c][1]]_vars

\* A session was created again under an id in use, and system messages were
\* appended behind the primer of its conversation.
C10_Witness ==
    /\ Len(conversations) = 2
    /\ \E id \in DOMAIN sessions :
           /\ sessions[id].conversation_id = 2
           /\ Len(ConvOf(id)) >= 2
           /\ ConvOf(id)[2].role = "system"
    /\ Len(conversations[1]) >= 2

Expired(id) ==
    /\ id \in DOMAIN sessions
    /\ now - sessions[id].last_activity > SessionTimeout

\* C5: while a sweep task runs, a session idle for longer than the timeout
\* is removed by the next iteration of the sweep, and so eventually leaves the
\* table unless a request touches it first; no client request is needed.
C5_IdleSessionSwept ==
    /\ [][Sweep => \A id \in AllIds : Expired(id) => id \notin DOMAIN sessions']_vars
    /\ \A id \in AllIds :
           (Sweeping /\ Expired(id)) ~> (~Expired(id) \/ ~Sweeping)

\* A session was created, and with the sweep task running past the timeout
\* the table is empty again, though no client asked for the session's end.
C5_Witness ==
    /\ cleanupTask = "running"
    /\ Len(conversations) >= 1
    /\ sessions = <<>>
    /\ now > SessionTimeout

ExecutedWith(confirm) ==
    /\ toolRet.op = "execute_tool"
    /\ toolRet.registered
    /\ toolRet.confirm = confirm

RefusedWith(error) ==
    /\ ~toolRet.outcome.invoked
    /\ toolRet.outcome.kind = "return"
    /\ toolRet.outcome.result.success = FALSE
    /\ toolRet.outcome.result.error = error

\* C6: execute_tool with confirm = false on a registered tool whose metadata
\* requires confirmation does not invoke the tool and returns success = false,
\* error "Tool requires user confirmation", metadata requires_confirmation.
C6_ConfirmationRefused ==
    (/\ ExecutedWith(FALSE)
     /\ "requires_confirmation" \in DOMAIN toolRet.tool.metadata
     /\ toolRet.tool.metadata.requires_confirmation)
    => /\ RefusedWith(Err("Tool requires user confirmation", <<>>))
       /\ "metadata" \in DOMAIN toolRet.outcome.result
       /\ toolRet.outcome.result.metadata.requires_confirmation

\* C7: execute_tool on system_command while enable_system_commands is false
\* does not invoke the tool and returns success = false with the error
\* "Tool system_command is disabled", for either value of confirm.
C7_DisabledRefused ==
    (/\ toolRet.op = "execute_tool"
     /\ toolRet.registered
     /\ toolRet.tool_name = system_command
     /\ "category" \in DOMAIN toolRet.tool.metadata
     /\ toolRet.tool.metadata.category = "system"
     /\ ~enable_system_commands)
    => RefusedWith(Err("Tool <name> is disabled", system_command))

\* C8: execute_tool on a name that is not registered invokes nothing and
\* returns success = false with the error "Tool not found: <name>".
C8_UnknownToolRefused ==
    (/\ toolRet.op = "execute_tool"
     /\ ~toolRet.registered)
    => RefusedWith(Err("Tool not found: <name>", toolRet.tool_name))

\* C9: when the body of an enabled tool that needs no confirmation, or has
\* it, raises, execute_tool returns a result with success = false and the
\* message of the failure instead of raising.
C9_ToolFailureWrapped ==
    (/\ toolRet.op = "execute_tool"
     /\ toolRet.registered
     /\ "execute" \in DOMAIN toolRet.tool
     /\ toolRet.tool.execute = "raises"
     /\ (toolRet.tool.metadata.requires_confirmation => toolRet.confirm)
     /\ is_tool_enabled(toolRet.tool, enable_system_commands) = "yes")
    => /\ toolRet.outcome.kind = "return"
       /\ toolRet.outcome.result.success = FALSE
       /\ toolRet.outcome.result.error = Err("RuntimeError", <<>>)

\* C11: a successful add_message on a live session appends exactly one
\* message with the given role and content at the end of the session's
\* conversation, adds one to message_count, sets last_activity to the current
\* time, returns the appended message, and changes nothing else.
C11_AddMessageAppends ==
    [][\A id \in AllIds, role \in Roles, content \in Contents :
          (id \in DOMAIN sessions /\ AddMessage(id, role, content)) =>
              LET cid == sessions[id].conversation_id
                  message == Message(role, content, EmptyDict)
              IN  /\ ret'.status = "ok"
                  /\ ret'.out = <<message>>
                  /\ conversations' =
                         [conversations EXCEPT ![cid] = Append(@, message)]
                  /\ conversations'[cid][Len(conversations'[cid])] = ret'.out[1]
                  /\ sessions' =
                         [sessions EXCEPT ![id].message_count = @ + 1,
                                          ![id].last_activity = now]]_vars

\* The second append to a session, made after the clock has moved: the
\* counter is at two, the activity time is the current time, and the message
\* returned is the last of the conversation.
C11_Witness ==
    /\ ret.op = "add_message"
    /\ ret.status = "ok"
    /\ ret.sid \in DOMAIN sessions
    /\ now >= 1
    /\ sessions[ret.sid].message_count = 2
    /\ sessions[ret.sid].last_activity = now
    /\ Len(ConvOf(ret.sid)) = 3
    /\ ConvOf(ret.sid)[3] = ret.out[1]

\* C12: add_message on an id that is not in the session table raises the
\* session-not-found error, returns no message, creates no session and
\* appends to no conversation.
C12_UnknownSessionRejected ==
    [][\A id \in AllIds, role \in Roles, content \in Contents :
          (id \notin DOMAIN sessions /\ AddMessage(id, role, content)) =>
              /\ ret'.status = "SessionNotFound"
              /\ ret'.out = <<>>
              /\ sessions' = sessions
              /\ conversations' = conversations
              /\ appended' = appended]_vars

\* add_message on the client's id failed while that id was never created:
\* the only conversation belongs to the live session of the generated id.
C12_Witness ==
    /\ ret.op = "add_message"
    /\ ret.sid \in ClientIds
    /\ ret.status = "SessionNotFound"
    /\ DOMAIN sessions = {GenIds[1]}
    /\ Len(conversations) = 1
    /\ sessions[GenIds[1]].conversation_id = 1

\* C13: every operation that looks a live session up (get_session, a context
\* read, an append) sets its last_activity to the current time, and the sweep
\* leaves untouched every session whose idle time is within the timeout; so a
\* session looked up at least once per timeout interval is never swept.
C13_TouchKeepsAlive ==
    [][/\ \A id \in AllIds :
              (/\ id \in DOMAIN sessions
               /\ \/ GetSession(id)
                  \/ GetContext(id, ContextWindow)
                  \/ \E role \in Roles, content \in Contents :
                         AddMessage(id, role, content))
              => /\ id \in DOMAIN sessions'
                 /\ sessions'[id].last_activity = now
       /\ Sweep =>
              \A id \in DOMAIN sessions :
                  now - sessions[id].last_activity <= SessionTimeout =>
                      /\ id \in DOMAIN sessions'
                      /\ sessions'[id] = sessions[id]]_vars

\* Two sessions were created; while the sweep task runs and the clock is
\* past the timeout, one of them has just been looked up and is live with
\* its activity time refreshed, and the other is gone.
C13_Witness ==
    /\ cleanupTask = "running"
    /\ now > SessionTimeout
    /\ ret.op = "get_session"
    /\ ret.status = "ok"
    /\ DOMAIN sessions = {ret.sid}
    /\ sessions[ret.sid].last_activity = now
    /\ Len(conversations) = 2

\* A live entry that a step keeps: same id, same conversation.
Kept(id) ==
    /\ id \in DOMAIN sessions'
    /\ sessions'[id].conversation_id = sessions[id].conversation_id

\* C14: a live session leaves the table only through end_session or through
\* the sweep acting on a session idle for longer than the timeout; no other
\* operation removes it or replaces it.
C14_OnlyEndOrSweepRemoves ==
    [][\A id \in AllIds :
          id \in DOMAIN sessions =>
              \/ Kept(id)
              \/ EndSession(id)
              \/ Sweep /\ Expired(id)]_vars

\* C14, amended: a session id leaves the table only through end_session or
\* through the sweep acting on an expired session; the entry of a live id is
\* otherwise exchanged only by create_session called with that id, which
\* puts a fresh session with a new conversation in its place; get_session,
\* add_message, get_conversation_context and tool execution keep it.
C14_RemovedOnlyByEndOrSweep ==
    [][\A id \in AllIds :
          id \in DOMAIN sessions =>
              \/ Kept(id)
              \/ EndSession(id)
              \/ Sweep /\ Expired(id)
              \/ /\ CreateSession(id)
                 /\ id \in DOMAIN sessions'
                 /\ sessions'[id] = SessionInfo(Len(conversations) + 1, now)]_vars

\* Only the client's id was ever used; it has just been created a second
\* time: its session is new and points at the second conversation, while the
\* first conversation keeps the message appended through the earlier session.
C14_Witness ==
    /\ ret.op = "create_session"
    /\ ret.sid \in ClientIds
    /\ genCount = 0
    /\ Len(conversations) = 2
    /\ Len(conversations[1]) = 2
    /\ DOMAIN sessions = {ret.sid}
    /\ sessions[ret.sid] = SessionInfo(2, now)

\* C15: end_session on an id that is not in the session table returns
\* normally and changes neither table; so ending an id twice leaves the same
\* tables as ending it once.
C15_EndSessionIdempotent ==
    /\ [][\A id \in AllIds :
              (id \notin DOMAIN sessions /\ EndSession(id)) =>
                  /\ ret'.status = "ok"
                  /\ sessions' = sessions
                  /\ conversations' = conversations]_vars
    /\ [](\A id \in AllIds :
              end_session(end_session(St, id), id) = end_session(St, id))

\* end_session has just been called on the client's id, which was never
\* created: the one conversation belongs to the generated id, still live.
C15_Witness ==
    /\ ret.op = "end_session"
    /\ ret.sid \in ClientIds
    /\ genCount = 1
    /\ Len(conversations) = 1
    /\ DOMAIN sessions = {GenIds[1]}
    /\ sessions[GenIds[1]].conversation_id = 1

\* C16: every live session references a conversation that is in the
\* conversation table, no two live sessions reference the same conversation,
\* and no add_message call ends in the conversation-not-found error.
C16_SessionOwnsConversation ==
    /\ \A id \in DOMAIN sessions :
           sessions[id].conversation_id \in 1..Len(conversations)
    /\ \A a, b \in DOMAIN sessions :
           a # b => sessions[a].conversation_id # sessions[b].conversation_id
    /\ ret.status # "ConversationNotFound"

\* Two sessions are live, each with its own conversation, and an append to
\* one of them has just returned.
C16_Witness ==
    /\ Cardinality(DOMAIN sessions) = 2
    /\ ret.op = "add_message"
    /\ ret.status = "ok"
    /\ Len(ConvOf(ret.sid)) = 2
    /\ \E other \in DOMAIN sessions \ {ret.sid} : Len(ConvOf(other)) = 1

\* ----------------------------------------------------------- parser claims
\* A call alone in a text, with nothing or plain text or a line end around it.
Around(call) == {pre \o call \o post : pre, post \in {<<>>, Plain, Newline}}

ExpectedCall(name, key, value, confirmation) ==
    [tool_name |-> name,
     parameters |-> IF key = "query" THEN [query |-> value] ELSE [path |-> value],
     requires_confirmation |-> confirmation]

\* C17: a text whose single call is [TOOL: web_search("python tutorials")]
\* parses to exactly one ToolCall, named web_search, with parameters
\* {query: python tutorials} and requires_confirmation false; the sole
\* argument of a read_file or write_file call is mapped to {path: text}.
C17_SingleCallParsed ==
    parsed.done =>
        /\ full_response \in Around(CallSearch) =>
               parsed.tool_calls =
                   <<ExpectedCall(web_search, "query", PythonTutorials, FALSE)>>
        /\ full_response \in Around(CallRead) =>
               /\ Len(parsed.tool_calls) = 1
               /\ parsed.tool_calls[1].tool_name = read_file
               /\ parsed.tool_calls[1].parameters = [path |-> NotesTxt]
        /\ full_response \in Around(CallWrite) =>
               /\ Len(parsed.tool_calls) = 1
               /\ parsed.tool_calls[1].tool_name = write_file
               /\ parsed.tool_calls[1].parameters = [path |-> <<"n">>]

\* The web_search call of the example has been parsed out of a text that
\* has plain text before it and a line end after it.
C17_Witness ==
    /\ parsed.done
    /\ full_response = Plain \o CallSearch \o Newline
    /\ Len(parsed.tool_calls) = 1
    /\ parsed.tool_calls[1].parameters = [query |-> PythonTutorials]

DangerousNames == {write_file, delete_file, system_command}

\* C18: every parsed call has requires_confirmation true exactly when its
\* name is write_file, delete_file or system_command, whatever the registry
\* holds and whatever the argument text is.
C18_StaticDangerList ==
    parsed.done =>
        \A i \in 1..Len(parsed.tool_calls) :
            parsed.tool_calls[i].requires_confirmation
                <=> parsed.tool_calls[i].tool_name \in DangerousNames

\* The registry says system_command needs no confirmation and web_search
\* does; the parser has flagged a system_command call with no argument and
\* left a web_search call unflagged.
C18_Witness ==
    /\ parsed.done
    /\ system_command \in DOMAIN tools
    /\ ~tools[system_command].metadata.requires_confirmation
    /\ tools[web_search].metadata.requires_confirmation
    /\ \E i, j \in 1..Len(parsed.tool_calls) :
           /\ parsed.tool_calls[i].tool_name = system_command
           /\ parsed.tool_calls[i].parameters = EmptyDict
           /\ parsed.tool_calls[i].requires_confirmation
           /\ parsed.tool_calls[j].tool_name = web_search
           /\ ~parsed.tool_calls[j].requires_confirmation

\* The occurrences of the grammar [TOOL: name(args)] in a text, written as
\* a condition on positions: the literal opening at i, white space, a name
\* of word characters from j, "(" at k, and the first ")]" after it ending
\* at e, with no line end in between.
NameStarts(text, i) ==
    {j \in (i + Len(ToolOpen))..Len(text) :
        /\ text[j] \in WordChars
        /\ \A x \in (i + Len(ToolOpen))..(j - 1) : text[x] \in SpaceChars}

NameEnds(text, j) ==
    {k \in (j + 1)..Len(text) :
        /\ text[k] = "("
        /\ \A x \in j..(k - 1) : text[x] \in WordChars}

CallEnds(text, k) ==
    {e \in (k + 2)..Len(text) :
        /\ text[e - 1] = ")"
        /\ text[e] = "]"
        /\ \A x \in (k + 1)..(e - 2) :
               /\ text[x] # "\n"
               /\ ~(text[x] = ")" /\ text[x + 1] = "]")}

OccurrencesAt(text, i) ==
    IF ~HasPrefixAt(text, i, ToolOpen) THEN {}
    ELSE UNION {UNION {{[start |-> i, end |-> e,
                         name |-> SubSeq(text, j, k - 1),
                         args |-> SubSeq(text, k + 1, e - 2)] :
                            e \in CallEnds(text, k)} :
                       k \in NameEnds(text, j)} :
                j \in NameStarts(text, i)}

\* The non-overlapping occurrences from position `from` on, left to right:
\* the leftmost one, then those after its end.
RECURSIVE Occurrences(_, _)
Occurrences(text, from) ==
    LET starts == {i \in from..Len(text) : OccurrencesAt(text, i) # {}}
    IN  IF starts = {} THEN <<>>
        ELSE LET first == CHOOSE i \in starts : \A x \in starts : i <= x
                 occ == CHOOSE o \in OccurrencesAt(text, first) : TRUE
             IN  <<occ>> \o Occurrences(text, occ.end + 1)

\* C19: parse_tool_calls returns one ToolCall per non-overlapping occurrence
\* of the pattern, in the order of the occurrences in the text, and the
\* empty list for a text without an occurrence.
C19_OnePerOccurrence ==
    parsed.done =>
        LET occ == Occurrences(full_response, 1)
        IN  /\ Len(parsed.tool_calls) = Len(occ)
            /\ \A n \in 1..Len(occ) :
                   parsed.tool_calls[n].tool_name = occ[n].name
            /\ (occ = <<>>) => (parsed.tool_calls = <<>>)

\* Three calls in one text have been parsed, in the order written.
C19_Witness ==
    /\ parsed.done
    /\ full_response = CallWrite \o CallSearch \o CallRead
    /\ Len(parsed.tool_calls) = 3
    /\ parsed.tool_calls[1].tool_name = write_file
    /\ parsed.tool_calls[2].tool_name = web_search
    /\ parsed.tool_calls[3].tool_name = read_file

\* C20: in the result of the parser every occurrence has its ToolCall under
\* the name written, also when the name is none of the names the parser
\* maps or the argument text is malformed or empty; the parameter mapping
\* of a call is empty when its name is not mapped or its argument is empty,
\* and has the one key of the name otherwise.
C20_BestEffortParse ==
    parsed.done =>
        LET occ == Occurrences(full_response, 1)
        IN  \A n \in 1..Len(occ) :
                /\ n <= Len(parsed.tool_calls)
                /\ parsed.tool_calls[n].tool_name = occ[n].name
                /\ IF \/ occ[n].name \notin {web_search, read_file, write_file}
                      \/ occ[n].args = <<>>
                   THEN parsed.tool_calls[n].parameters = EmptyDict
                   ELSE DOMAIN parsed.tool_calls[n].parameters
                            \in {{"query"}, {"path"}}

\* A call under an unknown name with an unbalanced quote in its argument
\* and a web_search call without argument have both been parsed, each into
\* a ToolCall with an empty parameter mapping.
C20_Witness ==
    /\ parsed.done
    /\ full_response = CallUnknown \o CallSearchEmpty
    /\ Len(parsed.tool_calls) = 2
    /\ parsed.tool_calls[1].tool_name = foo
    /\ parsed.tool_calls[1].parameters = EmptyDict
    /\ parsed.tool_calls[2].tool_name = web_search
    /\ parsed.tool_calls[2].parameters = EmptyDict

\* The positions of the log entries a request has made: conversation, index.
EntriesBy(log, by, role) ==
    UNION {{<<c, i>> : i \in {j \in 1..Len(log[c]) :
                                  /\ log[c][j].by = by
                                  /\ log[c][j].role = role}} :
           c \in 1..Len(log)}

\* The steps a send_message request takes, as moves of its position.
TurnMoves ==
    {<<"idle", "llm">>, <<"idle", "failed">>, <<"llm", "done">>,
     <<"llm", "failed">>}

\* C21: a send_message turn moves only forward through its steps.  When it
\* reaches the inference call it has resolved or created its session and
\* appended its user message, and the context it sends is at most the last
\* ContextWindow messages (plus a system message chat() may put in front),
\* ends with the turn's own user message and has no assistant message of the
\* turn behind it.  The assistant message is appended only in the step that
\* receives and parses the full reply, as the last message of the
\* conversation, and its metadata holds the calls parsed from its content.
C21_TurnStepsInOrder ==
    [][\A t \in Turns :
        /\ turns[t].pc # turns'[t].pc =>
               <<turns[t].pc, turns'[t].pc>> \in TurnMoves
        /\ (turns[t].pc = "idle" /\ turns'[t].pc = "llm") =>
               LET sid == turns'[t].sid
                   cx == turns'[t].context
               IN  /\ sid \in DOMAIN sessions'
                   /\ LET conv == conversations'[sessions'[sid].conversation_id]
                      IN  /\ conv[Len(conv)].role = "user"
                          /\ cx # <<>>
                          /\ Len(cx) <= ContextWindow + 1
                          /\ cx[Len(cx)] = Projection(conv[Len(conv)])
                          /\ \A k \in 0..(Len(cx) - 1) :
                                 cx[Len(cx) - k].role # "system" =>
                                     /\ k < Len(conv)
                                     /\ cx[Len(cx) - k] =
                                            Projection(conv[Len(conv) - k])
                   /\ Cardinality(EntriesBy(appended', t, "user")) = 1
                   /\ EntriesBy(appended, t, "user") = {}
                   /\ EntriesBy(appended', t, "assistant") = {}
        /\ EntriesBy(appended', t, "assistant") # EntriesBy(appended, t, "assistant") =>
               /\ turns[t].pc = "llm"
               /\ turns'[t].pc = "done"
               /\ EntriesBy(appended, t, "assistant") = {}
               /\ \E e \in EntriesBy(appended', t, "assistant") :
                      /\ EntriesBy(appended', t, "assistant") = {e}
                      /\ e[2] = Len(appended'[e[1]])
                      /\ appended'[e[1]][e[2]].metadata =
                             [tool_calls |->
                                 parse_tool_calls(appended'[e[1]][e[2]].content)]
                      /\ turns'[t].tool_calls =
                             parse_tool_calls(appended'[e[1]][e[2]].content)
                      /\ EntriesBy(appended, t, "user") # {}
       ]_vars

\* A turn has completed with a parsed call in its assistant message, after
\* sending a context of the primer and its own user message.
C21_Witness ==
    \E t \in Turns :
        /\ turns[t].pc = "done"
        /\ turns[t].tool_calls # <<>>
        /\ Len(turns[t].context) = 2
        /\ turns[t].context[2].role = "user"
        /\ EntriesBy(appended, t, "assistant") # {}

\* C22: a completed turn reports requires_confirmation exactly when at least
\* one call parsed from its reply is flagged as requiring confirmation; with
\* no call, or only unflagged calls, it reports false.
C22_ConfirmationIffFlaggedCall ==
    \A t \in Turns :
        turns[t].pc = "done" =>
            \E e \in EntriesBy(appended, t, "assistant") :
                LET calls == parse_tool_calls(appended[e[1]][e[2]].content)
                IN  /\ turns[t].tool_calls = calls
                    /\ turns[t].requires_confirmation
                           <=> (\E i \in 1..Len(calls) :
                                    calls[i].requires_confirmation)
                    /\ calls = <<>> => ~turns[t].requires_confirmation

\* One turn completed with a flagged call among two and reports true, another
\* completed with an unflagged call only and reports false.
C22_Witness ==
    \E t, u \in Turns :
        /\ turns[t].pc = "done"
        /\ turns[u].pc = "done"
        /\ Len(turns[t].tool_calls) = 2
        /\ turns[t].requires_confirmation
        /\ turns[u].tool_calls # <<>>
        /\ ~turns[u].requires_confirmation

\* The session a turn appended its user message to is no longer registered:
\* its id is free, or names a session created since, with another conversation.
SessionLost(t) ==
    LET sid == turns[t].sid
    IN  \/ sid \notin DOMAIN sessions
        \/ \A e \in EntriesBy(appended, t, "user") :
               sessions[sid].conversation_id # e[1]

\* C24: when the sweep or an explicit end has removed a turn's session between
\* its user append and its assistant append, the assistant append fails, the
\* turn terminates as failed, no conversation receives a message and no
\* session is created.
C24_RacedAppendFails ==
    [][\A t \in Turns :
          (turns[t].pc = "llm" /\ turns'[t].pc # "llm" /\ SessionLost(t)) =>
              /\ add_message(St, turns[t].sid, "assistant", RespWrite,
                             EmptyDict, now).status = "SessionNotFound"
              /\ turns'[t].pc = "failed"
              /\ conversations' = conversations
              /\ sessions' = sessions
      ]_vars

\* C25: a request that fails because its session id is unknown or expired is
\* answered with a not-found response; for send_message, a turn whose
\* assistant append finds the session gone answers with status 404.
C25_MissingSessionIsNotFound ==
    [][\A t \in Turns :
          (turns[t].pc = "llm" /\ turns[t].sid \notin DOMAIN sessions
              /\ turns'[t].pc = "failed") =>
              turns'[t].status = 404
      ]_vars

\* The number of events of one type in a stream.
CountType(events, type) ==
    Cardinality({i \in 1..Len(events) : events[i].type = type})

\* The event sequence of the interface contract for a reply with these calls:
\* session, content fragments, tool_calls if there are calls, done.
WellFormedStream(events, tool_calls) ==
    /\ Len(events) >= 2
    /\ events[1].type = "session"
    /\ events[Len(events)].type = "done"
    /\ CountType(events, "session") = 1
    /\ CountType(events, "done") = 1
    /\ CountType(events, "tool_calls") = IF tool_calls # <<>> THEN 1 ELSE 0
    /\ \A i \in 2..(Len(events) - 1) :
           \/ events[i].type = "content"
           \/ /\ events[i].type = "tool_calls"
              /\ i = Len(events) - 1

\* C23: every streaming response that has ended, by completion or by a
\* failure of the inference call or of the assistant append, is one session
\* event, content events, at most one tool_calls event (present exactly when
\* the parsed reply has calls) and one final done event.
C23_StreamEndsWithDone ==
    stream.pc \in {"done", "aborted"} =>
        WellFormedStream(stream.events, parse_tool_calls(stream.full_response))

\* C29: a streaming turn cancelled by the caller's disconnect has appended no
\* assistant message: the only message it has added to any conversation is
\* its user message, and the partial text is nowhere in the history.
C29_CancelledStreamNotPersisted ==
    stream.pc = "cancelled" =>
        /\ EntriesBy(appended, StreamTurn, "assistant") = {}
        /\ Cardinality(EntriesBy(appended, StreamTurn, "user")) = 1
        /\ \A c \in 1..Len(conversations) :
               \A i \in 1..Len(conversations[c]) :
                   conversations[c][i].role # "assistant"
        /\ CountType(stream.events, "done") = 0

\* The caller disconnected after a fragment was streamed and before the end
\* of the inference output, while the session was live.
C29_Witness ==
    /\ stream.pc = "cancelled"
    /\ stream.full_response # <<>>
    /\ stream.events[Len(stream.events)].type = "content"
    /\ stream.sid \in DOMAIN sessions

\* C26: after startup, whether or not the backend was reachable, the sweep
\* task has been started and tool discovery has been performed.
C26_DegradedStartupStartsServices ==
    app.phase = "up" =>
        /\ cleanupTask = "running"
        /\ app.initialized
        /\ app.tool_manager

\* C27: every health probe after startup reports llm = true exactly when the
\* backend is reachable at the time of the probe.
C27_HealthReflectsReachability ==
    [][(\E file_system \in BOOLEAN : HealthCheck(file_system))
           => (app'.health.llm <=> app.backend)]_vars

\* C28: an iteration of the sweep that fails leaves the loop running, only
\* stop ends the loop, and while the loop runs after a failure an idle
\* session is still removed by a later iteration.
C28_SweepSurvivesFailure ==
    /\ [][app'.sweep_errors # app.sweep_errors =>
              (Sweeping /\ UNCHANGED <<cleanupTask, orphanTasks>>)]_vars
    /\ [][(cleanupTask = "running" /\ cleanupTask' # "running") => Stop]_vars
    /\ [][orphanTasks => orphanTasks']_vars
    /\ \A id \in AllIds :
           (app.sweep_errors > 0 /\ Sweeping /\ Expired(id))
               ~> (~Expired(id) \/ ~Sweeping)

\* An iteration has failed, the loop is still running, and a session is idle
\* beyond the timeout, waiting for a later iteration.
C28_Witness ==
    /\ app.sweep_errors > 0
    /\ cleanupTask = "running"
    /\ \E id \in AllIds : Expired(id)

IsPrefixOf(old, new) ==
    /\ Len(old) <= Len(new)
    /\ \A i \in 1..Len(old) : new[i] = old[i]

\* C30: in every step of the service each conversation keeps its messages
\* unchanged and in place and at most gains messages at its end; this
\* includes the steps in which chat() writes the tool description into the
\* context taken from the conversation.
C30_ConversationsAppendOnly ==
    [][/\ Len(conversations) <= Len(conversations')
       /\ \A c \in 1..Len(conversations) :
              IsPrefixOf(conversations[c], conversations'[c])
      ]_vars

\* A turn is at its inference call with a context whose system entry carries
\* the tool description, while the conversation it was taken from still
\* starts with the unmodified primer.
C30_Witness ==
    \E t \in Turns :
        /\ turns[t].pc = "llm"
        /\ turns[t].sid \in DOMAIN sessions
        /\ LET conv == conversations[sessions[turns[t].sid].conversation_id]
           IN  /\ turns[t].context[1].role = "system"
               /\ turns[t].context[1].content # conv[1].content
               /\ conv[1] = Primer
               /\ Len(conv) >= 2

\* C31: get_conversation_context changes no conversation, no session's
\* message_count or conversation, and neither adds nor removes a session; for
\* an id that is not live it returns the empty sequence and leaves both
\* tables as they are.
C31_ContextIsReadOnly ==
    [][\A id \in AllIds, n \in 0..MaxCtx :
          GetContext(id, n) =>
              /\ conversations' = conversations
              /\ DOMAIN sessions' = DOMAIN sessions
              /\ \A x \in DOMAIN sessions :
                     /\ sessions'[x].message_count = sessions[x].message_count
                     /\ sessions'[x].conversation_id = sessions[x].conversation_id
              /\ id \notin DOMAIN sessions =>
                     /\ ret'.out = <<>>
                     /\ sessions' = sessions
      ]_vars

\* The context of a live session with appended messages has just been read,
\* and an ended session's conversation is still stored next to it.
C31_Witness ==
    /\ ret.op = "get_conversation_context"
    /\ ret.sid \in DOMAIN sessions
    /\ ret.out # <<>>
    /\ sessions[ret.sid].message_count >= 1
    /\ Len(conversations) > Cardinality(DOMAIN sessions)

\* A step leaves a live session alone: same table entry, same messages.
Untouched(id) ==
    /\ id \in DOMAIN sessions'
    /\ sessions'[id] = sessions[id]
    /\ conversations'[sessions[id].conversation_id] =
           conversations[sessions[id].conversation_id]

\* C32: a step changes the table entry or the conversation of a live session
\* B only if it is an operation on B itself: an end of B, the sweep with B
\* expired, or a step of a turn on B.  Appends, ends and sweep removals of
\* any other session leave B untouched; and while a turn on another session
\* is suspended in its inference call, a turn that is at its own inference
\* call on live B can append its assistant message.
C32_SessionsIsolated ==
    [][\A b \in AllIds :
          b \in DOMAIN sessions =>
              /\ \/ Untouched(b)
                 \/ EndSession(b)
                 \/ Sweep /\ Expired(b)
                 \/ \E t \in Turns, content \in Contents :
                        TurnStart(t, b, content)
                 \/ \E t \in Turns :
                        /\ turns[t].sid = b
                        /\ turns[t].pc = "llm"
                        /\ turns'[t].pc # "llm"
              /\ \A t, u \in Turns :
                     (/\ turns[t].pc = "llm"
                      /\ turns[t].sid # b
                      /\ turns[u].pc = "llm"
                      /\ turns[u].sid = b) =>
                         /\ add_message(St, b, "assistant", RespWrite,
                                        EmptyDict, now).status = "ok"
                         /\ (TurnReply(u, RespWrite) =>
                                (turns'[u].pc = "done" /\ turns'[t] = turns[t]))
      ]_vars

\* A turn on one session is still suspended in its inference call while a
\* turn on another session has appended both its messages and completed.
C32_Witness ==
    \E t, u \in Turns :
        /\ turns[t].pc = "llm"
        /\ turns[u].pc = "done"
        /\ turns[t].sid # turns[u].sid
        /\ turns[t].sid \in DOMAIN sessions
        /\ turns[u].sid \in DOMAIN sessions
        /\ sessions[turns[t].sid].message_count = 1
        /\ sessions[turns[u].sid].message_count = 2

\* The text without one quote character at its start and one at its end,
\* where it has them.
StripOne(s) ==
    LET a == IF s # <<>> /\ Head(s) \in QuoteChars THEN Tail(s) ELSE s
    IN  IF a # <<>> /\ a[Len(a)] \in QuoteChars
        THEN SubSeq(a, 1, Len(a) - 1)
        ELSE a

\* C33: the value the parser maps for a web_search, read_file or write_file
\* call is the argument text less a single layer of surrounding quotes: an
\* argument in two layers of quotes, or in mixed quotes, keeps its inner layer.
C33_SingleQuoteLayerStripped ==
    parsed.done =>
        LET matches == FindAll(full_response, 1)
        IN  /\ Len(parsed.tool_calls) = Len(matches)
            /\ \A i \in 1..Len(matches) :
                   (/\ matches[i].params_str # <<>>
                    /\ matches[i].tool_name \in {web_search, read_file, write_file}) =>
                       \E key \in {"query", "path"} :
                           parsed.tool_calls[i].parameters =
                               [k \in {key} |-> StripOne(matches[i].params_str)]

\* C34: in the tool execution endpoint a call that fails validation (the
\* name is not registered, or the tool's validation rejects the parameters)
\* is answered with an error status, the tool's execution entry point is not
\* invoked, then or later, and no message is appended, whatever confirm is.
C34_InvalidCallNeverRuns ==
    /\ [][\A id \in ClientIds, n \in EndpointNames, confirm \in BOOLEAN :
            (/\ \/ n \notin DOMAIN tools
                \/ /\ "_validate_parameters" \in DOMAIN tools[n]
                   /\ tools[n]._validate_parameters = "error"
             /\ toolRet'.op = "POST /tools/execute"
             /\ toolRet'.tool_name = n
             /\ toolRet'.confirm = confirm
             /\ HttpExecuteTool(id, n, confirm))
            => /\ toolRet'.pc = "answered"
               /\ toolRet'.status = 400
               /\ ~toolRet'.outcome.invoked
               /\ UNCHANGED <<sessions, conversations, appended>>]_vars
    /\ [][(\E has_dict \in BOOLEAN : HttpExecuteReturn(has_dict))
              => toolRet.validation = "none"]_vars

\* A registered tool whose body would succeed, called with confirm for a
\* live session, was rejected by its own validation.
C34_Witness ==
    /\ toolRet.op = "POST /tools/execute"
    /\ toolRet.pc = "answered"
    /\ toolRet.validation = "error"
    /\ toolRet.status = 400
    /\ toolRet.registered
    /\ toolRet.tool._validate_parameters = "error"
    /\ toolRet.tool.execute = "ok"
    /\ toolRet.confirm
    /\ toolRet.session_id \in DOMAIN sessions

\* C35: through the tool execution endpoint every execution that returns
\* success appends exactly one tool-role message to the conversation of the
\* session id of the call, and every execution that is refused or fails
\* appends nothing and changes no session; no tool body runs successfully
\* for a session id whose history cannot record it.
C35_SuccessIsRecorded ==
    /\ [][\A id \in ClientIds, n \in EndpointNames, confirm \in BOOLEAN :
            (/\ toolRet'.op = "POST /tools/execute"
             /\ toolRet'.tool_name = n
             /\ toolRet'.confirm = confirm
             /\ HttpExecuteTool(id, n, confirm))
            => UNCHANGED <<sessions, conversations, appended>>]_vars
    /\ [][(\E has_dict \in BOOLEAN : HttpExecuteReturn(has_dict))
            => IF /\ toolRet'.outcome.kind = "return"
                  /\ toolRet'.outcome.result.success
               THEN LET id == toolRet.session_id
                    IN  /\ id \in DOMAIN sessions
                        /\ id \in DOMAIN sessions'
                        /\ LET c == sessions[id].conversation_id
                               log == conversations'[c]
                           IN  /\ sessions'[id].conversation_id = c
                               /\ Len(log) = Len(conversations[c]) + 1
                               /\ log[Len(log)].role = "tool"
               ELSE UNCHANGED <<sessions, conversations, appended>>]_vars

\* C36: in every reachable state, for every live session, message_count + 1
\* is the number of messages of its conversation: every message but the
\* primer was appended through add_message and counted by it.
C36_CountMatchesConversation ==
    \A id \in DOMAIN sessions :
        sessions[id].message_count + 1
            = Len(conversations[sessions[id].conversation_id])

\* A live session that has counted two appended messages, in a conversation
\* that starts with the primer.
C36_Witness ==
    \E id \in DOMAIN sessions :
        /\ sessions[id].message_count = 2
        /\ Len(conversations[sessions[id].conversation_id]) = 3
        /\ conversations[sessions[id].conversation_id][1] = Primer

\* C37: after create_session(id), for an id never used, ended before or
\* live, the session registered under id has message_count 0 and a
\* conversation that was not in the table before and holds exactly the
\* primer; the context and the export for that id show the primer only, so
\* no message of an earlier conversation held under id is reachable.
C37_CreateSessionStartsAfresh ==
    [][\A id \in KnownIds \cup {None} :
         CreateSession(id)
         => LET sid == ret'.sid
                st1 == [s |-> sessions', c |-> conversations']
                cid == sessions'[sid].conversation_id
            IN  /\ sid \in DOMAIN sessions'
                /\ sessions'[sid].message_count = 0
                /\ cid \notin 1..Len(conversations)
                /\ cid \in 1..Len(conversations')
                /\ conversations'[cid] = <<Primer>>
                /\ \A n \in 1..MaxCtx :
                       get_conversation_context(st1, sid, n, now').out
                           = ConversationGetContext(<<Primer>>, n)
                /\ export_conversation(st1, sid, now').status = 200
                /\ export_conversation(st1, sid, now').messages = <<Primer>>
      ]_vars

\* The one client id that was ever used has just been registered again: its
\* earlier conversation, with an appended message, is still in the table and
\* the session now points at a second one.
C37_Witness ==
    /\ ret.op = "create_session"
    /\ genCount = 0
    /\ \E id \in ClientIds :
           /\ ret.sid = id
           /\ DOMAIN sessions = {id}
           /\ sessions[id].conversation_id = 2
           /\ Len(conversations[1]) >= 2
           /\ conversations[1][2].role = "tool"
           /\ conversations[2] = <<Primer>>

\* C38: the conversation table never shrinks: end_session and the sweep
\* remove the session entry only and leave every stored conversation as it
\* is, every create_session adds one conversation, and so the statistics
\* always report at least as many conversations as active sessions.
C38_ConversationsNeverShrink ==
    /\ [](get_stats(St).total_conversations >= get_stats(St).active_sessions)
    /\ [][/\ get_stats(St').total_conversations
                 >= get_stats(St).total_conversations
          /\ \A id \in KnownIds :
                 EndSession(id)
                 => /\ conversations' = conversations
                    /\ id \notin DOMAIN sessions'
          /\ Sweep => conversations' = conversations
          /\ \A id \in KnownIds \cup {None} :
                 CreateSession(id)
                 => get_stats(St').total_conversations
                        = get_stats(St).total_conversations + 1
         ]_vars

\* Every session is gone, one of them ended explicitly just now, and the two
\* conversations that were created are still stored, the first with its
\* appended message.
C38_Witness ==
    /\ ret.op = "end_session"
    /\ get_stats(St).active_sessions = 0
    /\ get_stats(St).total_conversations = 2
    /\ get_stats(St).total_messages >= 3
    /\ Len(conversations[1]) >= 2

\* C39: whether execute_tool refuses or runs depends on the registered
\* tool's metadata, the enablement setting and confirm only: a call and the
\* same call with the opposite parsed requires_confirmation flag get the
\* same outcome, and a call flagged by the parser is run with confirm false
\* when the registered tool is enabled and its metadata asks for no
\* confirmation.
C39_ParsedFlagIgnored ==
    /\ \A i \in 1..Len(parsed.tool_calls), confirm \in BOOLEAN :
           LET tool_call == parsed.tool_calls[i]
               flipped == [tool_call EXCEPT !.requires_confirmation = ~@]
           IN  execute_tool_call(tools, enable_system_commands, tool_call,
                                 confirm)
                   = execute_tool_call(tools, enable_system_commands, flipped,
                                       confirm)
    /\ (/\ toolRet.op = "execute_tool"
        /\ toolRet.tool_call.requires_confirmation
        /\ ~toolRet.confirm
        /\ toolRet.registered
        /\ ~toolRet.tool.metadata.requires_confirmation
        /\ is_tool_enabled(toolRet.tool, enable_system_commands) = "yes")
       => /\ toolRet.outcome.invoked
          /\ toolRet.outcome = ToolBody(toolRet.tool)

\* The reply asked for write_file, the parser flagged the call, and the
\* executor ran the tool without confirmation.
C39_Witness ==
    /\ parsed.done
    /\ toolRet.op = "execute_tool"
    /\ toolRet.tool_name = write_file
    /\ toolRet.tool_call \in {parsed.tool_calls[i] : i \in 1..Len(parsed.tool_calls)}
    /\ toolRet.tool_call.requires_confirmation
    /\ ~toolRet.confirm
    /\ toolRet.outcome.invoked
    /\ toolRet.outcome.result.success

\* C40: a turn whose inference call fails is answered 500 and nothing is
\* rolled back: the session of the turn, also one the turn created, stays in
\* the live table with its count, the turn's user message stays in the
\* session's conversation as the one message the turn has added, and the
\* turn has added no assistant message.
C40_FailedTurnNotRolledBack ==
    [][\A t \in Turns :
         TurnFail(t)
         => LET sid == turns[t].sid
            IN  /\ turns'[t].status = 500
                /\ UNCHANGED <<sessions, conversations, appended>>
                /\ sid \in DOMAIN sessions'
                /\ sessions'[sid].message_count >= 1
                /\ sessions'[sid].message_count + 1
                       = Len(conversations'[sessions'[sid].conversation_id])
                /\ EntriesBy(appended', t, "assistant") = {}
                /\ \E e \in EntriesBy(appended', t, "user") :
                       /\ EntriesBy(appended', t, "user") = {e}
                       /\ e[1] = sessions'[sid].conversation_id
                       /\ conversations'[e[1]][e[2] + 1].role = "user"
                       /\ conversations'[e[1]][e[2] + 1].content
                              = appended'[e[1]][e[2]].content
      ]_vars

\* A turn that came without a session id has failed at the inference call:
\* the session it created is live with a count of one, and its conversation
\* is the primer followed by the turn's user message.
C40_Witness ==
    \E t \in Turns :
        /\ turns[t].pc = "failed"
        /\ turns[t].status = 500
        /\ turns[t].sid = GenIds[1]
        /\ GenIds[1] \in DOMAIN sessions
        /\ sessions[GenIds[1]].message_count = 1
        /\ LET conv == conversations[sessions[GenIds[1]].conversation_id]
           IN  /\ Len(conv) = 2
               /\ conv[1] = Primer
               /\ conv[2].role = "user"
        /\ Cardinality(EntriesBy(appended, t, "user")) = 1

====
